---- MODULE Spec2Model ----
(***************************************************************************)
(* A model of the listing store of kaaoune: src/lib/storage.ts (the        *)
(* db.json collection, its load-time migration, the property and settings  *)
(* mutations and the saveDb write gate) and of the API entry points that   *)
(* call it (the route handlers that follow scrapeProperty in               *)
(* src/lib/scraper.ts).                                                    *)
(*                                                                         *)
(* A JavaScript object is a function from its own keys to their values:    *)
(* a key that is absent from the object is absent from the DOMAIN.  An     *)
(* array is a sequence, except manuallyEditedFields, an array that the     *)
(* code only reads with includes() and rebuilds from a Set, which is a     *)
(* set.  Timestamps are readings of an integer clock; identifiers are      *)
(* integers (crypto.randomUUID() is a value never handed out before).      *)
(***************************************************************************)
EXTENDS Integers, Sequences, FiniteSets, TLC

VARIABLES
    fileExists,   \* db.json is present on disk
    file,         \* the parsed content of db.json (meaningful when fileExists)
    clock,        \* the wall clock, one tick per API request
    last,         \* what the last API request did and answered
    mode, cur, inc, out,   \* one application of a merge: SpecMerge
    isWriting,    \* storage.ts:64, the write gate
    tmpFile,      \* the content of db.json.tmp
    initFile,     \* the collection the concurrent requests started from
    procs,        \* the in-flight storage calls: SpecConc
    corrupt,      \* db.json is there but does not parse
    defaultProperties,   \* the array defaultDb.properties, as it is in memory
    loaded,       \* the collection getDb handed to the last request: SpecFallback
    scr,          \* one call of scrapeProperty: SpecScrape
    calc          \* one application of a text function of scraper.ts

vars == <<fileExists, file, clock, last, mode, cur, inc, out,
          isWriting, tmpFile, initFile, procs, corrupt, defaultProperties, loaded,
          scr, calc>>

seqVars == <<fileExists, file, clock, last>>
mergeVars == <<mode, cur, inc, out>>
concVars == <<isWriting, tmpFile, initFile, procs>>
fallbackVars == <<corrupt, defaultProperties, loaded>>
scrapeVars == <<scr, calc>>

----------------------------------------------------------------------------
(* Bounds of the model *)

\* API requests in one behaviour of Spec
MaxOps == 3

\* characters in a text handed to parseJapaneseNumber in SpecNumber
MaxText == 4

\* phrases in a body text of SpecYear
MaxPhrases == 3

\* storage calls in flight at once in SpecConc
NProcs == 2

\* SpecMerge: names in a record's manually-edited set, and optional fields
\* in an incoming payload
MaxKeys == 2

----------------------------------------------------------------------------
(* JavaScript objects *)

\* { ...a, ...b }
Spread(a, b) ==
    [k \in (DOMAIN a) \cup (DOMAIN b) |-> IF k \in DOMAIN b THEN b[k] ELSE a[k]]

\* delete o[k]
DeleteKey(o, k) == [x \in (DOMAIN o) \ {k} |-> o[x]]

\* the object o restricted to the keys in ks
Pick(o, ks) == [x \in (DOMAIN o) \cap ks |-> o[x]]

EmptyObject == [x \in {} |-> 0]

Has(o, k) == k \in DOMAIN o

\* Array.prototype.findIndex, given the set of the indices that pass the test:
\* the first of them, 0 when there is none (findIndex answers -1 there;
\* arrays are 1-based here)
FirstIndex(matching) ==
    IF matching = {} THEN 0
    ELSE CHOOSE i \in matching : \A j \in matching : i <= j

\* s with element i replaced by v
ReplaceAt(s, i, v) == [s EXCEPT ![i] = v]

----------------------------------------------------------------------------
(* storage.ts: the collection *)

DefaultLoan == [interestRate |-> 5, termYears |-> 35, downPayment |-> 0]

DefaultUser == [id |-> "u1", name |-> "User1", icon |-> "person"]

defaultDb ==
    [properties |-> <<>>,
     settings |-> [users |-> <<DefaultUser>>, loan |-> DefaultLoan]]

\* current.manuallyEditedFields || []
EditedFields(prop) ==
    IF Has(prop, "manuallyEditedFields") THEN prop.manuallyEditedFields ELSE {}

\* current.fees, spread: an absent fee bundle spreads to nothing
FeesOf(o) == IF Has(o, "fees") THEN o.fees ELSE EmptyObject

----------------------------------------------------------------------------
(* storage.ts: migrateDb, lines 103-192 *)

\* lines 173-174 and 184-185: a legacy partner tag becomes the canonical id
CanonicalId(id) ==
    IF id = "user-a" THEN "u1" ELSE IF id = "user-b" THEN "u2" ELSE id

\* lines 119-128: the user list synthesized from the old settings
SynthesizedUsers(old) ==
    LET nameOf(p, d) == IF Has(p, "name") /\ p.name # "" THEN p.name ELSE d
        iconOf(p) == IF Has(p, "icon") /\ p.icon # "" THEN p.icon ELSE "person"
        a == IF Has(old, "partnerA")
             THEN <<[id |-> "u1", name |-> nameOf(old.partnerA, "User1"),
                     icon |-> iconOf(old.partnerA)]>>
             ELSE <<>>
        b == IF Has(old, "partnerB")
             THEN <<[id |-> "u2", name |-> nameOf(old.partnerB, "User2"),
                     icon |-> iconOf(old.partnerB)]>>
             ELSE <<>>
    IN IF a \o b = <<>> THEN <<DefaultUser>> ELSE a \o b

\* a legacy partner tag, which lines 173-174 and 184-185 rewrite
IsLegacyId(id) == id \in {"user-a", "user-b"}

\* line 115: the settings lack a non-empty user list
LacksUsers(db) ==
    ~Has(db, "settings") \/ ~Has(db.settings, "users") \/ Len(db.settings.users) = 0

\* lines 115-138: the settings after the first block of migrateDb
migrateSettings(db) ==
    IF LacksUsers(db)
    THEN LET old == IF Has(db, "settings") THEN db.settings ELSE EmptyObject
         IN [users |-> SynthesizedUsers(old), loan |-> DefaultLoan]
    ELSE IF ~Has(db.settings, "loan")
    THEN Spread(db.settings, [loan |-> DefaultLoan])
    ELSE db.settings

\* lines 134 and 137: the first block sets changed
settingsChanged(db) == LacksUsers(db) \/ ~Has(db.settings, "loan")

\* A ratings value that is an object, { partnerA, partnerB }, as the
\* two-partner version wrote it.  Every other ratings value is an array; to
\* set the object apart from an array of ratings (even from an empty one) it
\* is held in a box.
Bundle(oldRatings) == <<[bundle |-> oldRatings]>>

\* line 143: Array.isArray(prop.ratings)
IsArray(ratings) == ~(Len(ratings) = 1 /\ Has(ratings[1], "bundle"))

\* the null of a score (UserRating, line 9)
Null == "null"

\* lines 147 and 155: o[k] is truthy: there, and neither null nor ''
Truthy(o, k) == Has(o, k) /\ o[k] \notin {Null, ""}

\* lines 152 and 160: updatedAt: prop.createdAt
carriedTimestamp(prop) ==
    IF Has(prop, "createdAt") THEN [updatedAt |-> prop.createdAt] ELSE EmptyObject

\* lines 147-162 with the comment left out of the test: a partner's rating is
\* carried over only when it has a score
partnerRatingScoreOnly(prop, oldRatings, partner, userId) ==
    IF Has(oldRatings, partner) /\ Truthy(oldRatings[partner], "score")
    THEN <<Spread(Spread([userId |-> userId],
                         Pick(oldRatings[partner], {"score", "comment"})),
                  carriedTimestamp(prop))>>
    ELSE <<>>

\* lines 147-162: the list entry of one partner's rating, if the partner is
\* there and has a score or a comment (a key whose value is undefined is not
\* written to the file)
partnerRating(prop, oldRatings, partner, userId) ==
    IF /\ Has(oldRatings, partner)
       /\ Truthy(oldRatings[partner], "score") \/ Truthy(oldRatings[partner], "comment")
    THEN <<Spread(Spread([userId |-> userId],
                         Pick(oldRatings[partner], {"score", "comment"})),
                  carriedTimestamp(prop))>>
    ELSE <<>>

\* lines 143-177: one property's ratings: an object, missing, or an array
migrateRatings(prop) ==
    IF ~Has(prop, "ratings") THEN Spread(prop, [ratings |-> <<>>])
    ELSE IF ~IsArray(prop.ratings)
    THEN LET oldRatings == prop.ratings[1].bundle
         IN [prop EXCEPT !.ratings =
                partnerRating(prop, oldRatings, "partnerA", "u1")
                   \o partnerRating(prop, oldRatings, "partnerB", "u2")]
    ELSE [prop EXCEPT !.ratings =
            [i \in 1..Len(prop.ratings) |->
                [prop.ratings[i] EXCEPT !.userId = CanonicalId(@)]]]

\* lines 165, 168 and 173-176 with the flag set by every property
ratingsChangedAlways(prop) == TRUE

\* lines 165, 168 and 173-176: the property loop sets changed
ratingsChanged(prop) ==
    \/ ~Has(prop, "ratings")
    \/ ~IsArray(prop.ratings)
    \/ \E i \in 1..Len(prop.ratings) : IsLegacyId(prop.ratings[i].userId)

\* lines 182-187
migrateUserIds(settings) ==
    [settings EXCEPT !.users =
        [i \in 1..Len(settings.users) |->
            [settings.users[i] EXCEPT !.id = CanonicalId(@)]]]

\* lines 184-185: the user loop sets changed
userIdsChanged(settings) ==
    \E i \in 1..Len(settings.users) : IsLegacyId(settings.users[i].id)

\* migrateDb: the migrated collection, and the changed flag of line 112, on
\* which alone the save of line 190 depends
migrateDb(db) ==
    LET settings == migrateSettings(db)
        withSettings == Spread(db, [settings |-> migrateUserIds(settings)])
        migrated ==
            IF Has(db, "properties")
            THEN Spread(withSettings,
                   [properties |->
                      [i \in 1..Len(db.properties) |-> migrateRatings(db.properties[i])]])
            ELSE withSettings
        changed ==
            \/ settingsChanged(db)
            \/ Has(db, "properties")
                 /\ \E i \in 1..Len(db.properties) : ratingsChanged(db.properties[i])
            \/ userIdsChanged(settings)
    IN [db |-> migrated, changed |-> changed]

----------------------------------------------------------------------------
(* storage.ts: ensureDb and getDb, lines 82-101, run as one step *)

\* what a load leaves on disk and hands to the caller: a missing file is
\* created from defaultDb (line 98), the migration is saved when it changed
\* something (line 190), and the file is read back (line 85)
getDb(exists, f) ==
    LET onDisk == IF exists THEN f ELSE defaultDb
        m == migrateDb(onDisk)
    IN [db |-> IF m.changed THEN m.db ELSE onDisk,
        created |-> ~exists, migrated |-> m.changed]

----------------------------------------------------------------------------
(* storage.ts: the mutations, each as a function of the loaded collection. *)
(* Each answers the collection it leaves in memory, whether it calls       *)
(* saveDb with it, whether it returns null, and the record it returns.     *)

NoRecord == [url |-> "none"]

Outcome(db, saved, isNull, rec) ==
    [db |-> db, saved |-> saved, isNull |-> isNull, rec |-> rec]

\* db.properties.findIndex(p => p.id === id)
IndexOfId(db, id) ==
    FirstIndex({i \in 1..Len(db.properties) : db.properties[i].id = id})

\* lines 205-224 without the duplicate check of lines 209-211
addPropertyUnchecked(db, property, newId, now) ==
    LET newProperty == Spread(property,
                          [id |-> newId, createdAt |-> now,
                           status |-> "considering", ratings |-> <<>>])
    IN Outcome([db EXCEPT !.properties = <<newProperty>> \o @],
               TRUE, FALSE, newProperty)

\* line 210: properties.find(p => p.url === property.url)
IndexOfUrl(db, url) ==
    FirstIndex({i \in 1..Len(db.properties) :
                  Has(db.properties[i], "url") /\ db.properties[i].url = url})

\* lines 205-224
addProperty(db, property, newId, now) ==
    LET i == IndexOfUrl(db, property.url)
        newProperty == Spread(property,
                          [id |-> newId, createdAt |-> now,
                           status |-> "considering", ratings |-> <<>>])
    IN IF i > 0
       THEN Outcome(db, FALSE, FALSE, db.properties[i])
       ELSE Outcome([db EXCEPT !.properties = <<newProperty>> \o @],
                    TRUE, FALSE, newProperty)

\* lines 239-254 with the list of ratings replaced by the new entry alone
updateRatingAlone(db, id, userId, ratingData, now) ==
    LET index == IndexOfId(db, id)
        prop == db.properties[index]
        updated == [prop EXCEPT !.ratings =
                       <<Spread(Spread([userId |-> userId], ratingData),
                                [updatedAt |-> now])>>]
    IN IF index = 0
       THEN Outcome(db, FALSE, TRUE, NoRecord)
       ELSE Outcome([db EXCEPT !.properties[index] = updated], TRUE, FALSE, updated)

\* lines 227-258
updateRating(db, id, userId, ratingData, now) ==
    LET index == IndexOfId(db, id)
        prop == db.properties[index]
        ratingIndex ==
            FirstIndex({i \in 1..Len(prop.ratings) : prop.ratings[i].userId = userId})
        ratings ==
            IF ratingIndex > 0
            THEN ReplaceAt(prop.ratings, ratingIndex,
                    Spread(Spread(prop.ratings[ratingIndex], ratingData),
                           [updatedAt |-> now]))
            ELSE Append(prop.ratings,
                    Spread(Spread([userId |-> userId], ratingData),
                           [updatedAt |-> now]))
        updated == [prop EXCEPT !.ratings = ratings]
    IN IF index = 0
       THEN Outcome(db, FALSE, TRUE, NoRecord)
       ELSE Outcome([db EXCEPT !.properties[index] = updated], TRUE, FALSE, updated)

\* lines 261-278
updatePropertyStatus(db, id, status) ==
    LET index == IndexOfId(db, id)
        updated == [db.properties[index] EXCEPT !.status = status]
    IN IF index = 0
       THEN Outcome(db, FALSE, TRUE, NoRecord)
       ELSE Outcome([db EXCEPT !.properties[index] = updated], TRUE, FALSE, updated)

\* line 284: db.properties.filter(p => p.id !== id)
RECURSIVE WithoutId(_, _)
WithoutId(props, id) ==
    IF props = <<>> THEN <<>>
    ELSE (IF Head(props).id # id THEN <<Head(props)>> ELSE <<>>)
            \o WithoutId(Tail(props), id)

\* lines 282-286: returns nothing, and saves whether or not a record went
deleteProperty(db, id) ==
    Outcome([db EXCEPT !.properties = WithoutId(@, id)], TRUE, FALSE, NoRecord)

\* the list of line 302 with its last entry forgotten
topLevelFieldsShort ==
    {"price", "area", "yearBuilt", "units", "station", "stationMinute"}

\* line 302
topLevelFields ==
    {"price", "area", "yearBuilt", "units", "station", "stationMinute", "parkingStatus"}

\* lines 312-314 and 347-349: the fee keys and the compound name of each
feeKeys == {"management", "repair", "parking"}

feeFieldName ==
    [management |-> "fees.management", repair |-> "fees.repair",
     parking |-> "fees.parking"]

\* lines 298-308 without lines 310-315: the fee bundle comes in as extracted
refreshUpdateDataTopOnly(editedFields, data) ==
    [k \in (DOMAIN data) \ (topLevelFields \cap editedFields) |-> data[k]]

\* lines 298-315: the incoming data without what was manually edited
refreshUpdateData(editedFields, data) ==
    LET top == [k \in (DOMAIN data) \ (topLevelFields \cap editedFields) |-> data[k]]
    IN IF Has(top, "fees")
       THEN [top EXCEPT !.fees =
               [k \in {x \in DOMAIN @ : ~(x \in feeKeys /\ feeFieldName[x] \in editedFields)}
                  |-> @[k]]]
       ELSE top

\* lines 295-326: the record a refresh stores
refreshMerge(current, data) ==
    LET updateData == refreshUpdateData(EditedFields(current), data)
    IN Spread(Spread(current, updateData),
              [fees |-> Spread(FeesOf(current), FeesOf(updateData))])

\* lines 289-330
refreshProperty(db, id, data) ==
    LET index == IndexOfId(db, id)
        updated == refreshMerge(db.properties[index], data)
    IN IF index = 0
       THEN Outcome(db, FALSE, TRUE, NoRecord)
       ELSE Outcome([db EXCEPT !.properties[index] = updated], TRUE, FALSE, updated)

\* a null (or undefined) where the payload of a request is to hold an object
NullObject == [null |-> TRUE]

\* lines 344-353: the names a manual update marks.  The fee branch is taken
\* when updates.fees is truthy (line 346); a fees key that holds null falls
\* through to the branch of the other keys
trackedFields(updates) ==
    UNION {IF key = "fees" /\ updates.fees # NullObject
           THEN {feeFieldName[k] : k \in feeKeys \cap DOMAIN updates.fees}
           ELSE IF key \notin {"manuallyEditedFields", "ratings", "status"}
           THEN {key}
           ELSE {} : key \in DOMAIN updates}

\* line 358 without the key-by-key merge: the incoming bundle replaces the stored one
manualFeesReplaced(current, updates) ==
    Pick(Spread(current, updates), {"fees"})

\* line 358: the fee bundle a manual update stores
manualFees(current, updates) ==
    IF Has(updates, "fees") /\ updates.fees # NullObject
    THEN [fees |-> Spread(FeesOf(current), updates.fees)]
    ELSE Pick(current, {"fees"})

\* lines 355-360 with the spread of the updates last: the body's
\* manuallyEditedFields replaces the tracked set
manualMergeUpdatesLast(current, updates) ==
    Spread(Spread(Spread(DeleteKey(current, "fees"), manualFees(current, updates)),
                  [manuallyEditedFields |->
                      EditedFields(current) \cup trackedFields(updates)]),
           DeleteKey(updates, "fees"))

\* lines 341-360: the record a manual update stores.  The fees key of line
\* 358 comes last: where it holds undefined (no stored bundle, none in the
\* payload) the record is written without it
manualMerge(current, updates) ==
    Spread(Spread(DeleteKey(Spread(current, updates), "fees"),
                  manualFees(current, updates)),
           [manuallyEditedFields |-> EditedFields(current) \cup trackedFields(updates)])

\* lines 332-364
updateProperty(db, id, updates) ==
    LET index == IndexOfId(db, id)
        updated == manualMerge(db.properties[index], updates)
    IN IF index = 0
       THEN Outcome(db, FALSE, TRUE, NoRecord)
       ELSE Outcome([db EXCEPT !.properties[index] = updated], TRUE, FALSE, updated)

\* lines 366-375
updateUserSettings(db, updates) ==
    Outcome([db EXCEPT !.settings = Spread(@, updates)], TRUE, FALSE, NoRecord)

----------------------------------------------------------------------------
(* scraper.ts: what the store sees of an extraction *)

\* scrapeProperty, lines 40-593, as a function of the page the URL serves.
\* "failed" is a page that could not be retrieved: the default data of lines
\* 71-76 comes back ("unknown" stands for the price placeholder of line 73).
\* The other pages yield the fields the extractors found on them; every page
\* that was read has a fee bundle (line 213).
scrapeProperty(url, page) ==
    LET default == [title |-> "", price |-> "unknown", url |-> url, images |-> <<>>]
    IN CASE page = "failed" -> default
         [] page = "pageA" ->
              Spread(default,
                 [title |-> "Listing A", price |-> "5480", images |-> <<"img1">>,
                  monthlyPayment |-> "150000", station |-> "Shibuya",
                  stationMinute |-> 5, yearBuilt |-> 2003, area |-> 60,
                  isFreehold |-> TRUE, units |-> 40,
                  fees |-> [management |-> 10000, repair |-> 8000, parking |-> 20000],
                  parkingStatus |-> "available", renovated |-> FALSE])
         [] page = "pageB" ->
              Spread(default,
                 [title |-> "Listing B", price |-> "5280", images |-> <<"img2">>,
                  area |-> 65, isFreehold |-> TRUE,
                  fees |-> [management |-> 12000], renovated |-> TRUE])

----------------------------------------------------------------------------
(* The API entry points (scraper.ts lines 599-664 and the settings route), *)
(* each run from request to response without another request in between.   *)
(* A handler answers the file it leaves and its response.                  *)

Response(op, id, http, scraped, g, o) ==
    [op |-> op, id |-> id, http |-> http, scraped |-> scraped,
     created |-> g.created, migrated |-> g.migrated,
     saved |-> o.saved, isNull |-> o.isNull, rec |-> o.rec]

\* the file after a storage call: what getDb left, or what saveDb wrote
Handled(g, o, resp) == [file |-> IF o.saved THEN o.db ELSE g.db, resp |-> resp]

\* GET, lines 599-602
getProperties(exists, f) ==
    LET g == getDb(exists, f)
        o == Outcome(g.db, FALSE, FALSE, NoRecord)
    IN Handled(g, o, Response("list", 0, 200, FALSE, g, o))

\* lines 608-615 with the lookup first: a url that is stored is answered
\* without an extraction
postAddLookupFirst(exists, f, url, page, newId, now) ==
    LET g == getDb(exists, f)
        i == IndexOfUrl(g.db, url)
        known == Outcome(g.db, FALSE, FALSE, g.db.properties[i])
        o == addProperty(g.db, scrapeProperty(url, page), newId, now)
    IN IF i > 0
       THEN Handled(g, known, Response("add", known.rec.id, 200, FALSE, g, known))
       ELSE Handled(g, o, Response("add", o.rec.id, 200, TRUE, g, o))

\* POST with a url, lines 608-615: scrape first, then save
postAdd(exists, f, url, page, newId, now) ==
    LET data == scrapeProperty(url, page)
        g == getDb(exists, f)
        o == addProperty(g.db, data, newId, now)
    IN Handled(g, o, Response("add", o.rec.id, 200, TRUE, g, o))

\* POST action rate, lines 617-621
postRate(exists, f, id, userId, rating, now) ==
    LET g == getDb(exists, f)
        o == updateRating(g.db, id, userId, rating, now)
    IN Handled(g, o, Response("rate", id, 200, FALSE, g, o))

\* POST action status, lines 623-627
postStatus(exists, f, id, status) ==
    LET g == getDb(exists, f)
        o == updatePropertyStatus(g.db, id, status)
    IN Handled(g, o, Response("status", id, 200, FALSE, g, o))

\* POST action refresh, lines 629-641: look the record up, answer 404 when it
\* is not there, else scrape its url again and refresh it
postRefresh(exists, f, id, page) ==
    LET g == getDb(exists, f)
        index == IndexOfId(g.db, id)
        data == scrapeProperty(g.db.properties[index].url, page)
        g2 == getDb(TRUE, g.db)
        o == refreshProperty(g2.db, id, data)
        none == Outcome(g.db, FALSE, FALSE, NoRecord)
    IN IF index = 0
       THEN Handled(g, none, Response("refresh", id, 404, FALSE, g, none))
       ELSE Handled(g2, o, Response("refresh", id, 200, TRUE, g, o))

\* POST action update, lines 643-648
postUpdate(exists, f, id, updates) ==
    LET g == getDb(exists, f)
        o == updateProperty(g.db, id, updates)
    IN Handled(g, o, Response("update", id, 200, FALSE, g, o))

\* DELETE, lines 657-664: answers success whatever deleteProperty found
deleteRequest(exists, f, id) ==
    LET g == getDb(exists, f)
        o == deleteProperty(g.db, id)
    IN Handled(g, o, Response("delete", id, 200, FALSE, g, o))

\* POST of the settings route
postSettings(exists, f, updates) ==
    LET g == getDb(exists, f)
        o == updateUserSettings(g.db, updates)
    IN Handled(g, o, Response("settings", 0, 200, FALSE, g, o))

----------------------------------------------------------------------------
(* Spec: API requests served one after the other *)

Urls == {"https://a.example/1", "https://b.example/2"}

Pages == {"failed", "pageA", "pageB"}

RatingInputs ==
    {[userId |-> "u1", rating |-> [score |-> "good", comment |-> "c1"]],
     [userId |-> "u1", rating |-> [score |-> "bad", comment |-> "c2"]],
     [userId |-> "user-a", rating |-> [score |-> "good", comment |-> "c3"]]}

\* body.status is any truthy value (line 624): two of the workflow states of
\* PropertyStatus, and a string that is none of them
StatusInputs == {"viewed", "excluded", "archived"}

\* request bodies of a manual update: content fields, and the keys a stored
\* record has besides them
ManualPayloads ==
    {[price |-> "5000"],
     [fees |-> [management |-> 9000]],
     [id |-> 0, createdAt |-> 0],
     [status |-> "viewed", ratings |-> <<>>],
     [manuallyEditedFields |-> {}]}

SettingsPayloads ==
    {[users |-> <<>>],
     [loan |-> [interestRate |-> 10, termYears |-> 30, downPayment |-> 1000000]]}

\* the identifiers a request may name: the stored ones, and one that is not
StoredIds(exists, f) ==
    IF exists /\ Has(f, "properties")
    THEN {f.properties[i].id : i \in 1..Len(f.properties)}
    ELSE {}

TargetIds == StoredIds(fileExists, file) \cup {0}

IdleLast ==
    [op |-> "none", id |-> 0, http |-> 0, scraped |-> FALSE, created |-> FALSE,
     migrated |-> FALSE, saved |-> FALSE, isNull |-> FALSE, rec |-> NoRecord]

IdleRecord == [url |-> "none"]

MergeIdle == mode = "off" /\ cur = IdleRecord /\ inc = IdleRecord /\ out = IdleRecord

\* no text function is applied
CalcIdle == [fn |-> "off", text |-> <<>>, done |-> FALSE]

\* no call of scrapeProperty is under way
ScrapeIdle ==
    /\ scr = [pc |-> "off", url |-> "none", page |-> "none", blocked |-> FALSE,
              challenge |-> "none", data |-> NoRecord]
    /\ calc = CalcIdle

\* db.json parses, and defaultDb is as the module defined it
FallbackIdle ==
    /\ corrupt = FALSE
    /\ defaultProperties = <<>>
    /\ loaded = [db |-> defaultDb, fallback |-> FALSE]

ConcIdle ==
    /\ isWriting = FALSE
    /\ tmpFile = defaultDb
    /\ initFile = [exists |-> FALSE, db |-> defaultDb]
    /\ procs = <<>>

Init ==
    /\ fileExists = FALSE
    /\ file = defaultDb
    /\ clock = 1
    /\ last = IdleLast
    /\ MergeIdle
    /\ ConcIdle
    /\ FallbackIdle
    /\ ScrapeIdle

\* a request runs handler h
Serve(h) ==
    /\ clock <= MaxOps
    /\ fileExists' = TRUE
    /\ file' = h.file
    /\ last' = h.resp
    /\ clock' = clock + 1
    /\ UNCHANGED <<fallbackVars, scrapeVars, mergeVars, concVars>>

GetProperties == Serve(getProperties(fileExists, file))

PostAdd ==
    \E url \in Urls, page \in Pages :
        Serve(postAdd(fileExists, file, url, page, 100 + clock, clock))

PostRate ==
    \E id \in TargetIds, r \in RatingInputs :
        Serve(postRate(fileExists, file, id, r.userId, r.rating, clock))

PostStatus ==
    \E id \in TargetIds, status \in StatusInputs :
        Serve(postStatus(fileExists, file, id, status))

PostRefresh ==
    \E id \in TargetIds, page \in Pages :
        Serve(postRefresh(fileExists, file, id, page))

PostUpdate ==
    \E id \in TargetIds, updates \in ManualPayloads :
        Serve(postUpdate(fileExists, file, id, updates))

DeleteRequest ==
    \E id \in TargetIds : Serve(deleteRequest(fileExists, file, id))

PostSettings ==
    \E updates \in SettingsPayloads : Serve(postSettings(fileExists, file, updates))

Next ==
    \/ GetProperties
    \/ PostAdd
    \/ PostRate
    \/ PostStatus
    \/ PostRefresh
    \/ PostUpdate
    \/ DeleteRequest
    \/ PostSettings

Spec == Init /\ [][Next]_vars

----------------------------------------------------------------------------
(* SpecLegacy: requests served from a db.json that an earlier version of   *)
(* the program, or an earlier run, left on disk.                           *)

\* the settings such a file may hold: current ones, the two-partner shape,
\* users under legacy ids, no loan, an empty user list
PersistedSettings ==
    {defaultDb.settings,
     [partnerA |-> [name |-> "Aki", icon |-> "cat"], partnerB |-> EmptyObject],
     [users |-> <<[id |-> "user-a", name |-> "Aki", icon |-> "cat"],
                  [id |-> "user-b", name |-> "Bo", icon |-> "dog"]>>,
      loan |-> DefaultLoan],
     [users |-> <<DefaultUser>>],
     [users |-> <<>>,
      loan |-> [interestRate |-> 10, termYears |-> 30, downPayment |-> 1000000]]}

\* the ratings a stored property may hold: none, a list (under current or
\* legacy ids), or the two-partner object
PersistedRatings ==
    {<<>>,
     <<[userId |-> "u1", score |-> "bad", comment |-> "b1", updatedAt |-> 0]>>,
     <<[userId |-> "user-a", score |-> "good", comment |-> "a1", updatedAt |-> 0],
       [userId |-> "user-b", score |-> Null, comment |-> "b2", updatedAt |-> 0]>>,
     Bundle(EmptyObject),
     Bundle([partnerA |-> [score |-> "good", comment |-> "c"]]),
     Bundle([partnerA |-> [score |-> Null, comment |-> ""],
             partnerB |-> [score |-> "bad", comment |-> ""]]),
     Bundle([partnerA |-> [comment |-> "words only"],
             partnerB |-> [score |-> Null, comment |-> "d"]]),
     Bundle([partnerA |-> [score |-> "good", comment |-> "c"],
             partnerB |-> [score |-> "bad", comment |-> "d"]])}

\* a record stored before the clock of the model started
PersistedRecord(id, url) ==
    [id |-> id, url |-> url, title |-> "Listing", price |-> "4980",
     images |-> <<>>, createdAt |-> 0, status |-> "considering"]

\* one record, with every ratings value or with none
PersistedFirst ==
    {Spread(PersistedRecord(101, "https://a.example/1"), [ratings |-> r]) :
        r \in PersistedRatings}
      \cup {PersistedRecord(101, "https://a.example/1")}

PersistedSecond ==
    {Spread(PersistedRecord(102, "https://b.example/2"), [ratings |-> r]) :
        r \in {Bundle([partnerA |-> [score |-> Null, comment |-> ""],
                       partnerB |-> [score |-> "bad", comment |-> ""]]),
               <<[userId |-> "user-a", score |-> "good", comment |-> "a1",
                  updatedAt |-> 0]>>}}

PersistedFiles ==
    {[properties |-> ps, settings |-> st] :
        ps \in {<<>>} \cup {<<p>> : p \in PersistedFirst}
                      \cup {<<p, q>> : p \in PersistedFirst, q \in PersistedSecond},
        st \in PersistedSettings}
      \cup {[properties |-> <<p>>] : p \in PersistedFirst}

InitLegacy ==
    /\ fileExists = TRUE
    /\ file \in PersistedFiles
    /\ clock = 1
    /\ last = IdleLast
    /\ MergeIdle
    /\ ConcIdle
    /\ FallbackIdle
    /\ ScrapeIdle

\* the collection is listed, or a rating is given
NextLegacy == GetProperties \/ PostRate

SpecLegacy == InitLegacy /\ [][NextLegacy]_vars

----------------------------------------------------------------------------
(* SpecMerge: one refresh or one manual update of one stored record, the   *)
(* record and the incoming data drawn from every protectable field.        *)

\* the content fields a person can edit and an extraction can find
ContentFields ==
    {"price", "area", "yearBuilt", "units", "station", "stationMinute", "parkingStatus"}

\* the names the edit of a content field or of a fee leaves in the edited set
EditableNames == ContentFields \cup {"fees.management", "fees.repair", "fees.parking"}

\* what a person types into the edit form
ManualValues ==
    [price |-> "4980", area |-> 61, yearBuilt |-> 2001, units |-> 41,
     station |-> "Ebisu", stationMinute |-> 7, parkingStatus |-> "none",
     title |-> "My title",
     fees |-> [management |-> 11000, repair |-> 9000, parking |-> 21000]]

\* what a later extraction finds on the page
FreshValues ==
    [price |-> "5380", area |-> 62, yearBuilt |-> 2002, units |-> 42,
     station |-> "Meguro", stationMinute |-> 9, parkingStatus |-> "waiting list",
     fees |-> [management |-> 13000, repair |-> 7000, parking |-> 19000]]

SmallSubsets(S) == {T \in SUBSET S : Cardinality(T) <= MaxKeys}

FeeKeysNamed(names) == {k \in feeKeys : feeFieldName[k] \in names}

\* the manual-update body that edits the named fields
ManualUpdateOf(names) ==
    LET top == Pick(ManualValues, names \ {"fees"})
    IN IF FeeKeysNamed(names) = {} THEN top
       ELSE Spread(top, [fees |-> Pick(ManualValues.fees, FeeKeysNamed(names))])

\* a stored record: added from a page, then the named fields edited by hand
StoredRecordOf(page, names) ==
    LET added == addProperty(defaultDb, scrapeProperty("https://a.example/1", page),
                             101, 1).rec
    IN IF names = {} THEN added ELSE manualMerge(added, ManualUpdateOf(names))

\* the pages a record was added from: one that could not be retrieved leaves
\* a record with no fee bundle
StoredRecords ==
    {StoredRecordOf(page, names) :
        page \in {"failed", "pageA", "pageB"},
        names \in SmallSubsets(EditableNames \cup {"title"})}

\* the keys of PropertyData, scraper.ts lines 3-23
ExtractionKeys ==
    {"title", "price", "monthlyPayment", "url", "images", "station",
     "stationMinute", "yearBuilt", "area", "isFreehold", "units", "fees",
     "parkingStatus", "renovated"}

\* the extraction that finds on the page exactly what the record holds
ExtractedOf(rec) == Pick(rec, ExtractionKeys)

\* the fee bundles of an extraction: all subsets of the three keys
\* when the page was read
FreshFeeBundles == {Pick(FreshValues.fees, ks) : ks \in SUBSET feeKeys}

\* the data of a later extraction of the record's page: the keys every
\* extraction has, a fee bundle, and some of the optional fields
FreshData(url) ==
    {Spread(Spread(scrapeProperty(url, "failed"),
                   [title |-> "Listing A2", images |-> <<"img3">>, fees |-> fb]),
            Pick(FreshValues, {"price"} \cup opt)) :
        fb \in FreshFeeBundles,
        opt \in SmallSubsets(ContentFields \ {"price"})}
      \cup {scrapeProperty(url, "failed")}

\* the bodies of a manual update: the edit of some fields; the keys a
\* stored record has besides its content; a fees key that holds null, alone
\* and next to an edited field
ManualUpdates ==
    {ManualUpdateOf(names) : names \in SmallSubsets(EditableNames \cup {"title"})}
      \cup ManualPayloads
      \cup {[fees |-> NullObject], [fees |-> NullObject, area |-> 61]}

OneRecordDb(rec) == [defaultDb EXCEPT !.properties = <<rec>>]

SeqIdle ==
    /\ fileExists = FALSE
    /\ file = defaultDb
    /\ clock = 1
    /\ last = IdleLast

InitMerge ==
    /\ SeqIdle
    /\ ConcIdle
    /\ FallbackIdle
    /\ ScrapeIdle
    /\ cur \in StoredRecords
    /\ out = cur
    /\ \/ mode = "refresh" /\ inc \in FreshData(cur.url) \cup {ExtractedOf(cur)}
       \/ mode = "update" /\ inc \in ManualUpdates

ApplyRefresh ==
    /\ mode = "refresh"
    /\ out' = refreshProperty(OneRecordDb(cur), cur.id, inc).rec
    /\ mode' = "refreshed"
    /\ UNCHANGED <<fallbackVars, scrapeVars, cur, inc, seqVars, concVars>>

ApplyUpdate ==
    /\ mode = "update"
    /\ out' = updateProperty(OneRecordDb(cur), cur.id, inc).rec
    /\ mode' = "updated"
    /\ UNCHANGED <<fallbackVars, scrapeVars, cur, inc, seqVars, concVars>>

\* the same extraction is merged a second time into what the first refresh stored
ApplyRefreshAgain ==
    /\ mode = "refreshed"
    /\ out' = refreshProperty(OneRecordDb(out), out.id, inc).rec
    /\ mode' = "refreshedTwice"
    /\ UNCHANGED <<fallbackVars, scrapeVars, cur, inc, seqVars, concVars>>

NextMerge == ApplyRefresh \/ ApplyUpdate \/ ApplyRefreshAgain

SpecMerge == InitMerge /\ [][NextMerge]_vars

----------------------------------------------------------------------------
(* SpecConc: storage calls running at once in one process.  A call is     *)
(* suspended at each await and resumes in one piece; between two awaits   *)
(* nothing else runs (one JavaScript thread).                             *)

\* the calls that race: a rating, a status update and a delete of record 101
CallNames == {"rate", "status", "delete"}

\* lines 232-257, 266-277, 283-285: what the call makes of the collection it loaded
ApplyCall(name, db) ==
    CASE name = "rate" ->
            updateRating(db, 101, "u1", [score |-> "good", comment |-> "c1"], 2)
      [] name = "status" -> updatePropertyStatus(db, 101, "viewed")
      [] name = "delete" -> deleteProperty(db, 101)

\* the whole call with no other call in flight
RunAlone(name, start) ==
    LET g == getDb(start.exists, start.db)
        o == ApplyCall(name, g.db)
    IN [exists |-> TRUE, db |-> IF o.saved THEN o.db ELSE g.db]

\* the collections the racing calls may find: no file yet, a file with one
\* record, and a file whose record has a rating under a legacy user id
\* (which the load-time migration rewrites and saves)
StartFiles ==
    LET rec == StoredRecordOf("pageA", {})
        rated == [rec EXCEPT !.ratings =
                     <<[userId |-> "user-a", score |-> "bad", comment |-> "c0",
                        updatedAt |-> 1]>>]
    IN {[exists |-> FALSE, db |-> defaultDb],
        [exists |-> TRUE, db |-> OneRecordDb(rec)],
        [exists |-> TRUE, db |-> OneRecordDb(rated)]}

IdleProc == [pc |-> "idle", call |-> "none", db |-> defaultDb, cont |-> "none",
             error |-> FALSE]

InitConc ==
    /\ MergeIdle
    /\ FallbackIdle
    /\ ScrapeIdle
    /\ clock = 1
    /\ last = IdleLast
    /\ initFile \in StartFiles
    /\ fileExists = initFile.exists
    /\ file = initFile.db
    /\ isWriting = FALSE
    /\ tmpFile = defaultDb
    /\ procs = [p \in 1..NProcs |-> IdleProc]

\* line 68 with the loop condition dropped: the gate is never waited for
GateIgnored(writing) == TRUE

\* line 68: while (isWriting) ... : saveDb goes on only when the gate is free
GateIsFree(writing) == ~writing

\* call p moves on, leaving the other calls where they are
Move(p, new) == procs' = [procs EXCEPT ![p] = new]

\* a request arrives and its storage call starts getDb (line 83)
Begin(p) ==
    /\ procs[p].pc = "idle"
    /\ \E name \in CallNames :
          Move(p, [procs[p] EXCEPT !.pc = "access", !.call = name])
    /\ UNCHANGED <<fallbackVars, scrapeVars, seqVars, mergeVars, isWriting, tmpFile, initFile>>

\* ensureDb, lines 95-99: fs.access answers; a missing file is to be created
\* from defaultDb
Access(p) ==
    /\ procs[p].pc = "access"
    /\ IF fileExists
       THEN Move(p, [procs[p] EXCEPT !.pc = "migrate"])
       ELSE Move(p, [procs[p] EXCEPT !.pc = "gate", !.db = defaultDb,
                                     !.cont = "migrate"])
    /\ UNCHANGED <<fallbackVars, scrapeVars, seqVars, mergeVars, isWriting, tmpFile, initFile>>

\* migrateDb, lines 104-191: the file is read and migrated; what changed is
\* to be saved
Migrate(p) ==
    /\ procs[p].pc = "migrate"
    /\ LET m == migrateDb(file)
       IN IF m.changed
          THEN Move(p, [procs[p] EXCEPT !.pc = "gate", !.db = m.db, !.cont = "read"])
          ELSE Move(p, [procs[p] EXCEPT !.pc = "read"])
    /\ UNCHANGED <<fallbackVars, scrapeVars, seqVars, mergeVars, isWriting, tmpFile, initFile>>

\* getDb, lines 85-86, and the body of the call up to its saveDb: the file is
\* read and the call changes its copy in memory
ReadAndModify(p) ==
    /\ procs[p].pc = "read"
    /\ LET o == ApplyCall(procs[p].call, file)
       IN IF o.saved
          THEN Move(p, [procs[p] EXCEPT !.pc = "gate", !.db = o.db, !.cont = "done"])
          ELSE Move(p, [procs[p] EXCEPT !.pc = "done"])
    /\ UNCHANGED <<fallbackVars, scrapeVars, seqVars, mergeVars, isWriting, tmpFile, initFile>>

\* saveDb, lines 68-71: the gate is found free and taken
TakeGate(p) ==
    /\ procs[p].pc = "gate"
    /\ GateIsFree(isWriting)
    /\ isWriting' = TRUE
    /\ Move(p, [procs[p] EXCEPT !.pc = "writeTmp"])
    /\ UNCHANGED <<fallbackVars, scrapeVars, seqVars, mergeVars, tmpFile, initFile>>

\* line 75: the collection is written to db.json.tmp
WriteTmp(p) ==
    /\ procs[p].pc = "writeTmp"
    /\ tmpFile' = procs[p].db
    /\ Move(p, [procs[p] EXCEPT !.pc = "rename"])
    /\ UNCHANGED <<fallbackVars, scrapeVars, seqVars, mergeVars, isWriting, initFile>>

\* line 76: db.json.tmp is renamed to db.json
Rename(p) ==
    /\ procs[p].pc = "rename"
    /\ file' = tmpFile
    /\ fileExists' = TRUE
    /\ Move(p, [procs[p] EXCEPT !.pc = "release"])
    /\ UNCHANGED <<fallbackVars, scrapeVars, clock, last, mergeVars, isWriting, tmpFile, initFile>>

\* lines 75-76: the write or the rename throws
WriteFails(p) ==
    /\ procs[p].pc \in {"writeTmp", "rename"}
    /\ Move(p, [procs[p] EXCEPT !.pc = "release", !.error = TRUE])
    /\ UNCHANGED <<fallbackVars, scrapeVars, seqVars, mergeVars, isWriting, tmpFile, initFile>>

\* lines 72-79 without the finally: the gate is reset only after a write
\* that went through
ReleaseUnlessFailed(p) ==
    /\ procs[p].pc = "release"
    /\ isWriting' = (isWriting /\ procs[p].error)
    /\ Move(p, [procs[p] EXCEPT
                  !.pc = IF procs[p].error THEN "failed" ELSE procs[p].cont])
    /\ UNCHANGED <<fallbackVars, scrapeVars, seqVars, mergeVars, tmpFile, initFile>>

\* lines 77-79: the gate is released; saveDb returns to where it was called
\* from, or the error leaves the call
Release(p) ==
    /\ procs[p].pc = "release"
    /\ isWriting' = FALSE
    /\ Move(p, [procs[p] EXCEPT
                  !.pc = IF procs[p].error THEN "failed" ELSE procs[p].cont])
    /\ UNCHANGED <<fallbackVars, scrapeVars, seqVars, mergeVars, tmpFile, initFile>>

NextConc ==
    \E p \in 1..NProcs :
        \/ Begin(p)
        \/ Access(p)
        \/ Migrate(p)
        \/ ReadAndModify(p)
        \/ TakeGate(p)
        \/ WriteTmp(p)
        \/ Rename(p)
        \/ WriteFails(p)
        \/ Release(p)

SpecConc == InitConc /\ [][NextConc]_vars

\* what call p does by itself once it has started: every await of the call
\* is on a file operation or on the 50 ms timer of line 69, and comes back
Proceed(p) ==
    \/ Access(p)
    \/ Migrate(p)
    \/ ReadAndModify(p)
    \/ TakeGate(p)
    \/ WriteTmp(p)
    \/ Rename(p)
    \/ WriteFails(p)
    \/ Release(p)

\* fair scheduling: no call that can go on is left behind for ever
SpecConcFair == SpecConc /\ \A p \in 1..NProcs : WF_vars(Proceed(p))

----------------------------------------------------------------------------
(* SpecFallback: requests served one after the other by one process, while *)
(* db.json may get damaged between them.  defaultDb is one object of the   *)
(* module for as long as the process lives (lines 50-62); what a call      *)
(* changes in place through a reference to its properties array stays      *)
(* changed for the calls that follow.                                       *)

\* defaultDb as it stands in memory
defaultDbInMemory(props) == [defaultDb EXCEPT !.properties = props]

\* lines 82-101 for a file that may fail to parse.  On a file that does not
\* parse migrateDb gives up (line 109), the parse of line 86 throws, and the
\* caller gets { ...defaultDb } (line 89): a new top level around the
\* properties array and the settings of defaultDb themselves.  A missing
\* file is created from defaultDb as it stands (line 98).
getDbOrFallback(exists, unparseable, f, props) ==
    IF exists /\ unparseable
    THEN [db |-> defaultDbInMemory(props), created |-> FALSE, migrated |-> FALSE,
          fallback |-> TRUE]
    ELSE LET g == getDb(TRUE, IF exists THEN f ELSE defaultDbInMemory(props))
         IN [db |-> g.db, created |-> ~exists, migrated |-> g.migrated,
             fallback |-> FALSE]

\* the calls that change db.properties in place: unshift (line 221) and the
\* assignment to an element (line 274).  deleteProperty and
\* updateUserSettings assign a new value to a key of db (lines 284, 371).
InPlaceCalls == {"add", "status"}

\* a request is served: the collection is loaded, the call runs on it, and
\* what it saves is a file that parses again
ServeLoaded(name, g, o) ==
    /\ clock <= MaxOps
    /\ loaded' = [db |-> g.db, fallback |-> g.fallback]
    /\ fileExists' = TRUE
    /\ file' = IF o.saved THEN o.db ELSE IF g.fallback THEN file ELSE g.db
    /\ corrupt' = (g.fallback /\ ~o.saved)
    /\ defaultProperties' =
          IF g.fallback /\ name \in InPlaceCalls THEN o.db.properties
          ELSE defaultProperties
    /\ last' = Response(name, 0, 200, name = "add", g, o)
    /\ clock' = clock + 1
    /\ UNCHANGED <<mergeVars, concVars, scrapeVars>>

Loaded == getDbOrFallback(fileExists, corrupt, file, defaultProperties)

\* GET
ListLoaded == ServeLoaded("list", Loaded, Outcome(Loaded.db, FALSE, FALSE, NoRecord))

\* POST with a url
AddLoaded ==
    \E url \in Urls :
        ServeLoaded("add", Loaded,
                    addProperty(Loaded.db, scrapeProperty(url, "pageB"),
                                100 + clock, clock))

\* POST action status
StatusLoaded ==
    \E id \in {101, 102} :
        ServeLoaded("status", Loaded, updatePropertyStatus(Loaded.db, id, "viewed"))

\* DELETE
DeleteLoaded ==
    \E id \in {101, 102} :
        ServeLoaded("delete", Loaded, deleteProperty(Loaded.db, id))

\* POST of the settings route
SettingsLoaded ==
    \E updates \in SettingsPayloads :
        ServeLoaded("settings", Loaded, updateUserSettings(Loaded.db, updates))

\* db.json is damaged from outside the program: what is on disk no longer
\* parses
Damage ==
    /\ fileExists /\ ~corrupt
    /\ clock <= MaxOps
    /\ corrupt' = TRUE
    /\ UNCHANGED <<seqVars, mergeVars, concVars, scrapeVars, defaultProperties, loaded>>

InitFallback ==
    /\ SeqIdle
    /\ MergeIdle
    /\ ConcIdle
    /\ FallbackIdle
    /\ ScrapeIdle

NextFallback ==
    \/ ListLoaded
    \/ AddLoaded
    \/ StatusLoaded
    \/ DeleteLoaded
    \/ SettingsLoaded
    \/ Damage

SpecFallback == InitFallback /\ [][NextFallback]_vars

----------------------------------------------------------------------------
(* scraper.ts: texts.  A text is the sequence of its characters.  A number *)
(* is a record: whether it is NaN, its whole part, and its fraction in     *)
(* ten-thousandths (the fourth decimal place is the last one kept; the     *)
(* rounding of floating point is left out).  A character outside ASCII is  *)
(* written by a name: "man" is the ten-thousand unit, "yen" the yen sign,  *)
(* "nen" the year sign, "chiku", "getsu", "shun", "kou" and "ken" the       *)
(* characters of the construction labels, "nl" the line break, and "x" any *)
(* character that no pattern of the code mentions.                         *)

DigitChars == <<"0", "1", "2", "3", "4", "5", "6", "7", "8", "9">>

\* [0-9]
IsDigit(c) == \E i \in 1..10 : DigitChars[i] = c

DigitValue(c) == (CHOOSE i \in 1..10 : DigitChars[i] = c) - 1

\* [0-9\.]
IsNumberChar(c) == IsDigit(c) \/ c = "."

\* \s
IsSpace(c) == c \in {" ", "nl"}

\* where the longest run of [0-9] that starts at i ends: the index after it
DigitRunEnd(s, i) ==
    CHOOSE j \in i..(Len(s) + 1) :
        /\ \A k \in i..(j - 1) : IsDigit(s[k])
        /\ j = Len(s) + 1 \/ ~IsDigit(s[j])

\* the same for a run of [0-9\.]
NumberRunEnd(s, i) ==
    CHOOSE j \in i..(Len(s) + 1) :
        /\ \A k \in i..(j - 1) : IsNumberChar(s[k])
        /\ j = Len(s) + 1 \/ ~IsNumberChar(s[j])

\* the same for a run of \s
SpaceRunEnd(s, i) ==
    CHOOSE j \in i..(Len(s) + 1) :
        /\ \A k \in i..(j - 1) : IsSpace(s[k])
        /\ j = Len(s) + 1 \/ ~IsSpace(s[j])

\* the number a run of digits writes
RECURSIVE DigitsValue(_)
DigitsValue(ds) ==
    IF ds = <<>> THEN 0
    ELSE DigitsValue(SubSeq(ds, 1, Len(ds) - 1)) * 10 + DigitValue(ds[Len(ds)])

Zero == [nan |-> FALSE, whole |-> 0, frac |-> 0]

NaN == [nan |-> TRUE, whole |-> 0, frac |-> 0]

\* parseFloat of a run of [0-9\.]: the digits up to the first point and the
\* digits that follow it, up to a second point; NaN when there is no digit
\* in either place
parseFloat(run) ==
    LET intEnd == DigitRunEnd(run, 1)
        hasPoint == intEnd <= Len(run) /\ run[intEnd] = "."
        fracEnd == IF hasPoint THEN DigitRunEnd(run, intEnd + 1) ELSE intEnd
        intDigits == SubSeq(run, 1, intEnd - 1)
        fracDigits == IF hasPoint THEN SubSeq(run, intEnd + 1, fracEnd - 1) ELSE <<>>
    IN IF intDigits = <<>> /\ fracDigits = <<>> THEN NaN
       ELSE [nan |-> FALSE, whole |-> DigitsValue(intDigits),
             frac |-> DigitsValue(SubSeq(fracDigits \o <<"0", "0", "0", "0">>, 1, 4))]

\* v * 10000
TimesTenThousand(v) ==
    IF v.nan THEN NaN ELSE [nan |-> FALSE, whole |-> v.whole * 10000 + v.frac, frac |-> 0]

\* a + b
Plus(a, b) ==
    IF a.nan \/ b.nan THEN NaN
    ELSE [nan |-> FALSE, whole |-> a.whole + b.whole + ((a.frac + b.frac) \div 10000),
          frac |-> (a.frac + b.frac) % 10000]

\* v || 0
OrZero(v) == IF v.nan THEN Zero ELSE v

\* val.replace(/,/g, '')
RECURSIVE StripCommas(_)
StripCommas(val) ==
    IF val = <<>> THEN <<>>
    ELSE (IF Head(val) = "," THEN <<>> ELSE <<Head(val)>>) \o StripCommas(Tail(val))

\* parseJapaneseNumber, lines 25-38.  The pattern of line 29 matches at the
\* first character of [0-9\.] (either alternative starts with one): the
\* first alternative when the run that starts there is followed, after any
\* spaces, by the ten-thousand unit, with match[1] the run and match[2] the
\* run after the unit and any spaces; else the second alternative, with
\* match[3] the run.
parseJapaneseNumber(val) ==
    LET s == StripCommas(val)
        p == FirstIndex({i \in 1..Len(s) : IsNumberChar(s[i])})
        end1 == NumberRunEnd(s, p)
        unit == SpaceRunEnd(s, end1)
        start2 == SpaceRunEnd(s, unit + 1)
        match1 == SubSeq(s, p, end1 - 1)
        match2 == SubSeq(s, start2, NumberRunEnd(s, start2) - 1)
    IN IF val = <<>> \/ p = 0 THEN Zero
       ELSE IF unit <= Len(s) /\ s[unit] = "man"
       THEN Plus(TimesTenThousand(parseFloat(match1)),
                 IF match2 # <<>> THEN parseFloat(match2) ELSE Zero)
       ELSE OrZero(parseFloat(match1))

----------------------------------------------------------------------------
(* scraper.ts lines 181-200: the construction year of the generic          *)
(* extractor, as a function of the body text                               *)

\* new Date().getFullYear()
CurrentYear == 2026

\* line 181: the labels of an explicit construction date
Labels == {<<"chiku", "nen", "getsu">>, <<"shun", "kou">>, <<"ken", "chiku">>}

\* the index after the label that starts at i; 0 when no label starts there
LabelEnd(s, i) ==
    LET here == {l \in Labels : i + Len(l) - 1 <= Len(s) /\ SubSeq(s, i, i + Len(l) - 1) = l}
    IN IF here = {} THEN 0 ELSE i + Len(CHOOSE l \in here : TRUE)

\* [0-9]{4} at j
FourDigitsAt(s, j) == j + 3 <= Len(s) /\ \A k \in j..(j + 3) : IsDigit(s[k])

\* .*?([0-9]{4}) from index e: the first four digits with no line break
\* between e and them (0: none)
FirstFourDigitsOnLine(s, e) ==
    FirstIndex({j \in e..Len(s) : FourDigitsAt(s, j) /\ \A k \in e..(j - 1) : s[k] # "nl"})

\* line 181: where the digits of the first match of the labelled pattern
\* are (0: no match)
specificYearMatch(s) ==
    LET i == FirstIndex({i \in 1..Len(s) :
                            LabelEnd(s, i) > 0
                              /\ FirstFourDigitsOnLine(s, LabelEnd(s, i)) > 0})
    IN IF i = 0 THEN 0 ELSE FirstFourDigitsOnLine(s, LabelEnd(s, i))

\* line 185: the years of all matches of ([0-9]{4}) followed by the year sign
allYears(s) ==
    {DigitsValue(SubSeq(s, j, j + 3)) :
        j \in {j \in 1..Len(s) : FourDigitsAt(s, j) /\ j + 4 <= Len(s) /\ s[j + 4] = "nen"}}

\* lines 186-190
validYears(s) == {y \in allYears(s) : y > 1900 /\ y <= CurrentYear}

\* Math.max in the place of line 192
latestYear(years) == CHOOSE y \in years : \A z \in years : z <= y

\* line 192: Math.min(...validYears)
earliestYear(years) == CHOOSE y \in years : \A z \in years : y <= z

\* line 194: where the first match of the relative pattern starts (0: no match)
yearRelativeMatch(s) ==
    FirstIndex({i \in 1..Len(s) :
                  /\ s[i] = "chiku"
                  /\ DigitRunEnd(s, i + 1) > i + 1
                  /\ DigitRunEnd(s, i + 1) <= Len(s)
                  /\ s[DigitRunEnd(s, i + 1)] = "nen"})

Unset == [set |-> FALSE, year |-> 0]

Year(y) == [set |-> TRUE, year |-> y]

\* lines 181-200: data.yearBuilt
yearBuilt(s) ==
    LET labelled == specificYearMatch(s)
        relative == yearRelativeMatch(s)
    IN IF labelled > 0 THEN Year(DigitsValue(SubSeq(s, labelled, labelled + 3)))
       ELSE IF validYears(s) # {} THEN Year(earliestYear(validYears(s)))
       ELSE IF relative > 0
       THEN Year(CurrentYear
                   - DigitsValue(SubSeq(s, relative + 1, DigitRunEnd(s, relative + 1) - 1)))
       ELSE Unset

----------------------------------------------------------------------------
(* SpecYear: the construction year of one body text *)

\* what a body text is put together from: two labels, years with the year
\* sign (two in range, one too old, one in the future), four digits with no
\* year sign, an age, a digit, a line break and another character
Phrases ==
    {<<"shun", "kou">>,
     <<"chiku", "nen", "getsu">>,
     <<"2", "0", "1", "5", "nen">>,
     <<"2", "0", "0", "3", "nen">>,
     <<"1", "8", "5", "0", "nen">>,
     <<"2", "0", "2", "7", "nen">>,
     <<"2", "0", "1", "0">>,
     <<"chiku", "1", "5", "nen">>,
     <<"1">>,
     <<"nl">>,
     <<"x">>}

RECURSIVE BodiesUpTo(_)
BodiesUpTo(n) ==
    IF n = 0 THEN {<<>>}
    ELSE LET shorter == BodiesUpTo(n - 1)
         IN shorter \cup {t \o ph : t \in shorter, ph \in Phrases}

InitYear ==
    /\ SeqIdle
    /\ MergeIdle
    /\ ConcIdle
    /\ FallbackIdle
    /\ scr = [pc |-> "off", url |-> "none", page |-> "none", blocked |-> FALSE,
              challenge |-> "none", data |-> NoRecord]
    /\ \E text \in BodiesUpTo(MaxPhrases) :
          calc = [fn |-> "yearBuilt", text |-> text, done |-> FALSE]

ExtractYear ==
    /\ calc.fn = "yearBuilt" /\ ~calc.done
    /\ calc' = [fn |-> calc.fn, text |-> calc.text, done |-> TRUE,
                result |-> yearBuilt(calc.text)]
    /\ UNCHANGED <<seqVars, mergeVars, concVars, fallbackVars, scr>>

NextYear == ExtractYear

SpecYear == InitYear /\ [][NextYear]_vars

----------------------------------------------------------------------------
(* SpecNumber: parseJapaneseNumber applied to one text *)

\* the characters of the texts: digits, the point, the comma, the
\* ten-thousand unit, the yen sign, a space, and a character of no meaning
\* to the pattern
NumberChars == {"1", "3", ".", ",", "man", "yen", " ", "x"}

RECURSIVE TextsUpTo(_, _)
TextsUpTo(chars, n) ==
    IF n = 0 THEN {<<>>}
    ELSE LET shorter == TextsUpTo(chars, n - 1)
         IN shorter \cup {Append(t, c) : t \in shorter, c \in chars}

\* every text of up to MaxText characters, and the texts of lines 24, 33
\* and 37 and of the fees that the extractors hand over
NumberTexts ==
    TextsUpTo(NumberChars, MaxText)
      \cup {<<"1", "man", "3", "7", "4", "0", "yen">>,
            <<"3", ",", "0", "8", "0", "yen">>,
            <<"8", "0", "0", "0">>,
            <<"x", "x">>}

InitNumber ==
    /\ SeqIdle
    /\ MergeIdle
    /\ ConcIdle
    /\ FallbackIdle
    /\ scr = [pc |-> "off", url |-> "none", page |-> "none", blocked |-> FALSE,
              challenge |-> "none", data |-> NoRecord]
    /\ \E text \in NumberTexts :
          calc = [fn |-> "parseJapaneseNumber", text |-> text, done |-> FALSE]

ParseNumber ==
    /\ calc.fn = "parseJapaneseNumber" /\ ~calc.done
    /\ calc' = [fn |-> calc.fn, text |-> calc.text, done |-> TRUE,
                result |-> parseJapaneseNumber(calc.text)]
    /\ UNCHANGED <<seqVars, mergeVars, concVars, fallbackVars, scr>>

NextNumber == ParseNumber

SpecNumber == InitNumber /\ [][NextNumber]_vars

----------------------------------------------------------------------------
(* SpecScrape: one call of scrapeProperty (scraper.ts lines 40-593), step  *)
(* by step through the calls of the browser that may throw.                *)

\* lines 71-76
defaultData(url) == [title |-> "", price |-> "unknown", url |-> url, images |-> <<>>]

\* the call is at step pc
At(pc) == scr.pc = pc

\* the call goes on to step pc
GoTo(pc) ==
    /\ scr' = [scr EXCEPT !.pc = pc]
    /\ UNCHANGED <<seqVars, mergeVars, concVars, fallbackVars, calc>>

\* the call goes on to step pc with data
GoToWith(pc, data) ==
    /\ scr' = [scr EXCEPT !.pc = pc, !.data = data]
    /\ UNCHANGED <<seqVars, mergeVars, concVars, fallbackVars, calc>>

\* lines 42-52: chromium.launch, before the try of line 78
Launch == At("launch") /\ GoTo("newContext")

LaunchFails == At("launch") /\ GoTo("raised")

\* lines 55-66: browser.newContext and context.addInitScript, before the try
NewContext == At("newContext") /\ GoTo("newPage")

NewContextFails == At("newContext") /\ GoTo("raised")

\* lines 68-76: context.newPage, then the default data
NewPage == At("newPage") /\ GoToWith("goto", defaultData(scr.url))

NewPageFails == At("newPage") /\ GoTo("raised")

\* line 79, the first statement of the try
Goto == At("goto") /\ GoTo("checkBlocked")

\* line 79 throws: the catch of lines 587-588 logs it
GotoFails == At("goto") /\ GoTo("close")

\* lines 82-90: the page is, or is not, a verification challenge
CheckBlocked ==
    /\ At("checkBlocked")
    /\ IF scr.blocked THEN GoTo("waitCleared") ELSE GoTo("readTitle")

\* page.content() of line 83 throws
CheckBlockedFails == At("checkBlocked") /\ GoTo("close")

\* lines 92-100: the challenge is cleared within the timeout
WaitCleared ==
    /\ At("waitCleared")
    /\ scr' = [scr EXCEPT !.pc = "readTitle", !.challenge = "cleared"]
    /\ UNCHANGED <<seqVars, mergeVars, concVars, fallbackVars, calc>>

\* lines 92-103 without the inner try: the timeout of the wait leaves
\* through the catch of line 587
WaitTimesOutAborts ==
    /\ At("waitCleared")
    /\ scr' = [scr EXCEPT !.pc = "close", !.challenge = "timed out"]
    /\ UNCHANGED <<seqVars, mergeVars, concVars, fallbackVars, calc>>

\* lines 101-103: the wait times out; the call proceeds anyway
WaitTimesOut ==
    /\ At("waitCleared")
    /\ scr' = [scr EXCEPT !.pc = "readTitle", !.challenge = "timed out"]
    /\ UNCHANGED <<seqVars, mergeVars, concVars, fallbackVars, calc>>

\* lines 107-116: the title of the page
ReadTitle ==
    /\ At("readTitle")
    /\ GoToWith("readBody",
                [scr.data EXCEPT !.title = scrapeProperty(scr.url, scr.page).title])

\* page.title() throws
ReadTitleFails == At("readTitle") /\ GoTo("close")

\* lines 118-586: the images (each failure swallowed where it happens), the
\* body text and the extractors
ReadBodyAndExtract ==
    /\ At("readBody")
    /\ GoToWith("close", scrapeProperty(scr.url, scr.page))

\* page.innerText('body') of line 149 throws
ReadBodyFails == At("readBody") /\ GoTo("close")

\* lines 589-592: browser.close() in the finally, then return data
Close == At("close") /\ GoTo("returned")

\* browser.close() throws out of the finally
CloseFails == At("close") /\ GoTo("raised")

InitScrape ==
    /\ SeqIdle
    /\ MergeIdle
    /\ ConcIdle
    /\ FallbackIdle
    /\ \E url \in Urls, page \in {"pageA", "pageB"}, blocked \in BOOLEAN :
          scr = [pc |-> "launch", url |-> url, page |-> page, blocked |-> blocked,
                 challenge |-> "none", data |-> NoRecord]
    /\ calc = CalcIdle

NextScrape ==
    \/ Launch
    \/ LaunchFails
    \/ NewContext
    \/ NewContextFails
    \/ NewPage
    \/ NewPageFails
    \/ Goto
    \/ GotoFails
    \/ CheckBlocked
    \/ CheckBlockedFails
    \/ WaitCleared
    \/ WaitTimesOut
    \/ ReadTitle
    \/ ReadTitleFails
    \/ ReadBodyAndExtract
    \/ ReadBodyFails
    \/ Close
    \/ CloseFails

SpecScrape == InitScrape /\ [][NextScrape]_vars

\* every step of the call is an await on the browser that resolves or
\* rejects: page.goto and page.waitForFunction are given a timeout of 60000
\* (lines 79 and 99), the other calls have the timeout of the library
SpecScrapeFair == SpecScrape /\ WF_vars(NextScrape)

----------------------------------------------------------------------------
(* scraper.ts lines 118-147: the image list.  A src is a record: its       *)
(* scheme ("http", "https", or "/" for a path with no scheme), a name, and *)
(* whether it includes 'spacer.gif'.                                       *)

\* line 137: the length at which the loop over the selectors stops
ImageCap == 12

\* an attribute that is missing or empty
NoSrc == [scheme |-> "none", name |-> 0, spacer |-> FALSE]

Url(scheme, name) == [scheme |-> scheme, name |-> name, spacer |-> FALSE]

\* src.startsWith('http')
startsWithHttp(src) == src.scheme \in {"http", "https"}

\* images.includes(src)
Includes(images, src) == \E i \in 1..Len(images) : images[i] = src

\* lines 120-121: og:image is pushed when there is one
pushOgImage(images, ogImage) ==
    IF ogImage # NoSrc THEN Append(images, ogImage) ELSE images

\* lines 140-145: every match of one selector, in document order
RECURSIVE pushGallery(_, _)
pushGallery(images, imgs) ==
    IF imgs = <<>> THEN images
    ELSE LET src == Head(imgs)
             keep == /\ src # NoSrc
                     /\ startsWithHttp(src)
                     /\ ~Includes(images, src)
                     /\ ~src.spacer
         IN pushGallery(IF keep THEN Append(images, src) ELSE images, Tail(imgs))

\* lines 136-147: the selectors in order; the length is tested once per
\* selector (line 137)
RECURSIVE gatherGallery(_, _)
gatherGallery(images, matches) ==
    IF matches = <<>> \/ Len(images) >= ImageCap THEN images
    ELSE gatherGallery(pushGallery(images, Head(matches)), Tail(matches))

\* lines 118-147: data.images of a page
extractImages(page) == gatherGallery(pushOgImage(<<>>, page.ogImage), page.gallery)

----------------------------------------------------------------------------
(* SpecImages: the image list of one page *)

\* images that one selector matches on a page
MaxMatches == 13

\* selectors of line 124-134 that match anything on a page
MaxSelectors == 2

\* n images in a row, the first named a
Run(a, n) == [i \in 1..n |-> Url("https", a + i - 1)]

\* what one selector matches: images in a row (two starting points, so that
\* two selectors overlap), an image with a path for src, an image with no
\* src at all, and a spacer
MatchLists ==
    {Run(a, n) : a \in {1, 8}, n \in 1..MaxMatches}
      \cup {<<Url("/", 2)>>, <<NoSrc>>, <<[Url("https", 3) EXCEPT !.spacer = TRUE]>>}

RECURSIVE GalleriesUpTo(_)
GalleriesUpTo(n) ==
    IF n = 0 THEN {<<>>}
    ELSE LET shorter == GalleriesUpTo(n - 1)
         IN shorter \cup {Append(g, m) : g \in shorter, m \in MatchLists}

\* og:image: none, one that the gallery has too, one of its own, a path
OgImages == {NoSrc, Url("https", 1), Url("https", 99), Url("/", 1)}

ImagePages == [ogImage : OgImages, gallery : GalleriesUpTo(MaxSelectors)]

InitImages ==
    /\ SeqIdle
    /\ MergeIdle
    /\ ConcIdle
    /\ FallbackIdle
    /\ scr = [pc |-> "off", url |-> "none", page |-> "none", blocked |-> FALSE,
              challenge |-> "none", data |-> NoRecord]
    /\ \E page \in ImagePages :
          calc = [fn |-> "images", text |-> page, done |-> FALSE]

GatherImages ==
    /\ calc.fn = "images" /\ ~calc.done
    /\ calc' = [fn |-> calc.fn, text |-> calc.text, done |-> TRUE,
                result |-> extractImages(calc.text)]
    /\ UNCHANGED <<seqVars, mergeVars, concVars, fallbackVars, scr>>

NextImages == GatherImages

SpecImages == InitImages /\ [][NextImages]_vars

----------------------------------------------------------------------------
(* scraper.ts lines 228-585: the site-specific overrides.  Each works on   *)
(* the data the generic extractors left and on the label/value table of    *)
(* the page: a function from the labels to the text next to them.  A label *)
(* is written by a name: "kotsu" (access), "kakaku" (price), "kenri"       *)
(* (rights), "sokosu" (units), "kanrihi" (management fee), "shuzen"        *)
(* (repair fund), "chushajo" (parking), "senyu" (floor area),              *)
(* "chikunengetsu" (construction date).  More characters: "to" and "ho"    *)
(* write 'on foot', "fun" the minute sign, "m2" the square metre,          *)
(* "shakuchi" leasehold, "bar" the vertical bar.  Numbers are the records  *)
(* of the text functions; the price is a text.                             *)

\* a number with no fraction
Num(n) == [nan |-> FALSE, whole |-> n, frac |-> 0]

\* !v of a number: NaN and 0 are falsy
Falsy(v) == v.nan \/ (v.whole = 0 /\ v.frac = 0)

\* text.includes(c)
HasChar(s, c) == \E i \in 1..Len(s) : s[i] = c

\* text.trim()
Trim(s) ==
    LET inked == {i \in 1..Len(s) : ~IsSpace(s[i])}
    IN IF inked = {} THEN <<>>
       ELSE SubSeq(s, FirstIndex(inked), CHOOSE i \in inked : \A j \in inked : j <= i)

\* text.split('\n')
RECURSIVE Split(_)
Split(s) ==
    LET p == FirstIndex({i \in 1..Len(s) : s[i] = "nl"})
    IN IF p = 0 THEN <<s>>
       ELSE <<SubSeq(s, 1, p - 1)>> \o Split(SubSeq(s, p + 1, Len(s)))

\* parseInt(text, 10): the digits after any leading spaces; NaN without one
parseInt(s) ==
    LET b == SpaceRunEnd(s, 1)
        e == DigitRunEnd(s, b)
    IN IF e = b THEN NaN ELSE Num(DigitsValue(SubSeq(s, b, e - 1)))

\* the table lookups of lines 246-251, 332-337, 395-400 and 532-538: the
\* text of the label, null (the empty text here: every caller only tests
\* the answer for truth) when the table has no such label
getTableValue(table, header) == IF Has(table, header) THEN table[header] ELSE <<>>

\* ([^\s|]+?)\s*[on foot]\s*([0-9]+)min of line 257, and line 404 where the
\* bar is no exception and no space may follow the name: the matches as
\* <<start of the name, index after the name>>
WalkMatches(s, barred, spaced) ==
    {ij \in (1..Len(s)) \X (2..(Len(s) + 1)) :
        LET i == ij[1]
            j == ij[2]
            walk == IF spaced THEN SpaceRunEnd(s, j) ELSE j
            digits == SpaceRunEnd(s, walk + 1)
        IN /\ i < j
           /\ \A k \in i..(j - 1) : ~IsSpace(s[k]) /\ (barred => s[k] # "bar")
           /\ walk <= Len(s) /\ s[walk] \in {"to", "ho"}
           /\ DigitRunEnd(s, digits) > digits
           /\ DigitRunEnd(s, digits) <= Len(s)
           /\ s[DigitRunEnd(s, digits)] = "fun"}

\* the first match: the leftmost start, and the shortest name from there
WalkMatch(s, barred, spaced) ==
    LET ms == WalkMatches(s, barred, spaced)
        i == FirstIndex({ij[1] : ij \in ms})
        j == FirstIndex({ij[2] : ij \in {m \in ms : m[1] = i}})
        walk == IF spaced THEN SpaceRunEnd(s, j) ELSE j
        digits == SpaceRunEnd(s, walk + 1)
    IN IF ms = {} THEN [found |-> FALSE]
       ELSE [found |-> TRUE, name |-> SubSeq(s, i, j - 1),
             minute |-> parseInt(SubSeq(s, digits, DigitRunEnd(s, digits) - 1))]

\* [0-9,man\.]
IsPriceChar(c) == IsNumberChar(c) \/ c \in {",", "man"}

PriceRunEnd(s, i) ==
    CHOOSE j \in i..(Len(s) + 1) :
        /\ \A k \in i..(j - 1) : IsPriceChar(s[k])
        /\ j = Len(s) + 1 \/ ~IsPriceChar(s[j])

\* lines 269-270 and 415-416: ([0-9,man\.]+)yen, and the price made of it
\* (the empty text: no match)
priceOfTable(s) ==
    LET i == FirstIndex({i \in 1..Len(s) :
                            /\ IsPriceChar(s[i])
                            /\ PriceRunEnd(s, i) <= Len(s)
                            /\ s[PriceRunEnd(s, i)] = "yen"})
        m1 == SubSeq(s, i, PriceRunEnd(s, i) - 1)
    IN IF i = 0 THEN <<>>
       ELSE IF HasChar(m1, "man") THEN m1 ELSE m1 \o <<"yen">>

\* ([0-9\.]+)\s*(m2|...) of line 363, ([0-9\.]+)m2 of line 421 (no space)
\* and ([0-9\.]+) of line 566 (no unit): the run, empty when no match
areaRun(s, spaced, unit) ==
    LET i == FirstIndex({i \in 1..Len(s) :
                /\ IsNumberChar(s[i])
                /\ unit =>
                     LET u == IF spaced THEN SpaceRunEnd(s, NumberRunEnd(s, i))
                              ELSE NumberRunEnd(s, i)
                     IN u <= Len(s) /\ s[u] = "m2"})
    IN IF i = 0 THEN <<>> ELSE SubSeq(s, i, NumberRunEnd(s, i) - 1)

\* ([0-9]+) of lines 357 and 554: the first run of digits
firstDigits(s) ==
    LET i == FirstIndex({i \in 1..Len(s) : IsDigit(s[i])})
    IN IF i = 0 THEN <<>> ELSE SubSeq(s, i, DigitRunEnd(s, i) - 1)

\* ([0-9]{4})nen of lines 369, 427 and 560: the four digits, empty when no match
yearDigits(s) ==
    LET j == FirstIndex({j \in 1..Len(s) :
                            FourDigitsAt(s, j) /\ j + 4 <= Len(s) /\ s[j + 4] = "nen"})
    IN IF j = 0 THEN <<>> ELSE SubSeq(s, j, j + 3)

\* data with key k set to v when cond holds
SetIf(cond, data, k, v) == IF cond THEN Spread(data, [x \in {k} |-> v]) ELSE data

\* data.fees[k] = v when cond holds
SetFeeIf(cond, data, k, v) ==
    IF cond THEN [data EXCEPT !.fees = Spread(@, [x \in {k} |-> v])] ELSE data

\* data[k] is missing or falsy: a text that is empty, a number that is 0 or NaN
Missing(data, k) ==
    \/ ~Has(data, k)
    \/ IF k = "station" THEN data[k] = <<>> ELSE Falsy(data[k])

\* the placeholder of line 73
UnknownPrice == <<"unknown">>

\* lines 279-289, 339-353 and 540-550: the three fees and the parking status
feesOfTable(data, table, trimmed) ==
    LET mgmtVal == getTableValue(table, "kanrihi")
        repairVal == getTableValue(table, "shuzen")
        parkingVal == getTableValue(table, "chushajo")
        d1 == SetFeeIf(mgmtVal # <<>>, data, "management", parseJapaneseNumber(mgmtVal))
        d2 == SetFeeIf(repairVal # <<>>, d1, "repair", parseJapaneseNumber(repairVal))
        d3 == SetFeeIf(parkingVal # <<>>, d2, "parking", parseJapaneseNumber(parkingVal))
    IN SetIf(parkingVal # <<>>, d3, "parkingStatus",
             IF trimmed THEN Trim(parkingVal) ELSE parkingVal)

\* text.substring(0, 30)
Substring30(s) == SubSeq(s, 1, IF Len(s) < 30 THEN Len(s) ELSE 30)

\* lines 253-265: the access row
suumoAccess(data, table) ==
    LET accessVal == getTableValue(table, "kotsu")
        all == Split(accessVal)
        walking == {n \in 1..Len(all) : HasChar(all[n], "ho") /\ HasChar(all[n], "fun")}
        line == all[FirstIndex(walking)]
        m == WalkMatch(line, TRUE, TRUE)
    IN IF accessVal = <<>> \/ walking = {} THEN data
       ELSE IF m.found
       THEN Spread(data, [station |-> Trim(m.name), stationMinute |-> m.minute])
       ELSE Spread(data, [station |-> Substring30(Trim(line))])

\* lines 229-292: the override of suumo.jp
suumoOverride(data, table) ==
    LET d1 == suumoAccess(data, table)
        priceVal == getTableValue(table, "kakaku")
        d2 == SetIf(priceVal # <<>> /\ d1.price = UnknownPrice /\ priceOfTable(priceVal) # <<>>,
                    d1, "price", priceOfTable(priceVal))
        rightsVal == getTableValue(table, "kenri")
        d3 == SetIf(rightsVal # <<>>, d2, "isFreehold", ~HasChar(rightsVal, "shakuchi"))
        unitsVal == getTableValue(table, "sokosu")
        d4 == SetIf(unitsVal # <<>> /\ ~Falsy(parseInt(unitsVal)), d3, "units", parseInt(unitsVal))
    IN feesOfTable(d4, table, TRUE)

\* lines 339-371 of the override of mansion-note.com (lines 294-377)
mansionNoteOverride(data, table) ==
    LET d1 == feesOfTable(data, table, TRUE)
        unitsVal == getTableValue(table, "sokosu")
        d2 == SetIf(firstDigits(unitsVal) # <<>>, d1, "units", parseInt(firstDigits(unitsVal)))
        areaVal == getTableValue(table, "senyu")
        d3 == SetIf(areaRun(areaVal, TRUE, TRUE) # <<>>, d2, "area",
                    parseFloat(areaRun(areaVal, TRUE, TRUE)))
        builtVal == getTableValue(table, "chikunengetsu")
    IN SetIf(yearDigits(builtVal) # <<>>, d3, "yearBuilt", parseInt(yearDigits(builtVal)))

\* lines 402-411: the access row
homesAccess(data, table) ==
    LET accessVal == getTableValue(table, "kotsu")
        m == WalkMatch(accessVal, FALSE, FALSE)
    IN IF accessVal = <<>> \/ ~(Missing(data, "station") \/ Missing(data, "stationMinute"))
       THEN data
       ELSE IF m.found
       THEN Spread(data,
               [station |-> IF Missing(data, "station") THEN Trim(m.name) ELSE data.station,
                stationMinute |-> IF Missing(data, "stationMinute") THEN m.minute
                                  ELSE data.stationMinute])
       ELSE SetIf(Missing(data, "station"), data, "station", Trim(Split(accessVal)[1]))

\* lines 379-433: the override of homes.co.jp
homesOverride(data, table) ==
    LET d1 == homesAccess(data, table)
        priceVal == getTableValue(table, "kakaku")
        d2 == SetIf(priceVal # <<>> /\ d1.price = UnknownPrice /\ priceOfTable(priceVal) # <<>>,
                    d1, "price", priceOfTable(priceVal))
        areaVal == getTableValue(table, "senyu")
        d3 == SetIf(Missing(d2, "area") /\ areaRun(areaVal, FALSE, TRUE) # <<>>, d2, "area",
                    parseFloat(areaRun(areaVal, FALSE, TRUE)))
        ageVal == getTableValue(table, "chikunengetsu")
    IN SetIf(yearDigits(ageVal) # <<>>, d3, "yearBuilt", parseInt(yearDigits(ageVal)))

\* lines 570-578: the access row, read when station or minutes are missing
cowcamoAccess(data, table) ==
    LET access == getTableValue(table, "kotsu")
        at == FirstIndex({i \in 1..Len(access) :
                  /\ access[i] = "to" /\ i + 1 <= Len(access) /\ access[i + 1] = "ho"
                  /\ DigitRunEnd(access, i + 2) > i + 2
                  /\ DigitRunEnd(access, i + 2) <= Len(access)
                  /\ access[DigitRunEnd(access, i + 2)] = "fun"})
        d1 == Spread(data, [station |-> access])
    IN IF access = <<>> \/ ~(Missing(data, "station") \/ Missing(data, "stationMinute"))
       THEN data
       ELSE SetIf(at > 0, d1, "stationMinute",
                  parseInt(SubSeq(access, at + 2, Len(access))))

\* lines 540-578 of the override of cowcamo.jp (lines 435-585)
cowcamoOverride(data, table) ==
    LET d1 == feesOfTable(data, table, FALSE)
        units == getTableValue(table, "sokosu")
        d2 == SetIf(firstDigits(units) # <<>>, d1, "units", parseInt(firstDigits(units)))
        built == getTableValue(table, "chikunengetsu")
        d3 == SetIf(yearDigits(built) # <<>>, d2, "yearBuilt", parseInt(yearDigits(built)))
        area == getTableValue(table, "senyu")
        d4 == SetIf(areaRun(area, FALSE, FALSE) # <<>>, d3, "area",
                    parseFloat(areaRun(area, FALSE, FALSE)))
    IN cowcamoAccess(d4, table)

\* lines 229, 294, 379 and 435: url.includes(site), the four tests in a row
siteOverride(site, data, table) ==
    CASE site = "suumo.jp" -> suumoOverride(data, table)
      [] site = "mansion-note.com" -> mansionNoteOverride(data, table)
      [] site = "homes.co.jp" -> homesOverride(data, table)
      [] site = "cowcamo.jp" -> cowcamoOverride(data, table)
      [] OTHER -> data

----------------------------------------------------------------------------
(* SpecOverride: the override of one known site applied to the data of the *)
(* generic extractors and to the table of the page                         *)

\* labels in the table of a page
MaxLabels == 2

Sites == {"suumo.jp", "mansion-note.com", "homes.co.jp", "cowcamo.jp"}

\* lines 71-76 and 205-213: what the generic extractors leave when the body
\* text holds nothing for them
GenericBase == [price |-> UnknownPrice, isFreehold |-> TRUE, fees |-> EmptyObject]

\* what they leave when it does
GenericValues ==
    [price |-> <<"5", "2", "8", "0", "man", "yen">>, station |-> <<"G", "eki">>,
     stationMinute |-> Num(5), yearBuilt |-> Num(2003), area |-> Num(60),
     units |-> Num(40), parkingStatus |-> <<"g">>]

GenericFees == [management |-> Num(10000), repair |-> Num(8000), parking |-> Num(20000)]

\* the generic extractors found nothing, one field, or all of them; no fee
\* or all three
GenericDatas ==
    {Spread(Spread(GenericBase, Pick(GenericValues, ks)), [fees |-> Pick(GenericFees, fk)]) :
        ks \in {ks \in SUBSET DOMAIN GenericValues : Cardinality(ks) \in {0, 1, 7}},
        fk \in {{}, DOMAIN GenericFees}}

\* the texts next to a label: one with a value the override's pattern
\* reads, and one (a dash, 'none', 'to be decided') with nothing to read
TableTexts ==
    [kotsu |-> {<<"S", "eki", " ", "ho", "7", "fun">>,
                <<"S", "eki", "to", "ho", "7", "fun">>,
                <<"ho", "x", "fun">>,
                <<"x", "x">>},
     kakaku |-> {<<"4", "9", "8", "0", "man", "yen">>, <<"x">>},
     kenri |-> {<<"shakuchi">>, <<"x">>},
     sokosu |-> {<<"4", "1", "x">>, <<"x">>},
     kanrihi |-> {<<"1", "man", "3", "0", "0", "0", "yen">>, <<"x">>},
     shuzen |-> {<<"7", ",", "0", "0", "0", "yen">>, <<"x">>},
     chushajo |-> {<<"x", " ", "1", "9", ",", "0", "0", "0", "yen">>, <<"x", "x">>},
     senyu |-> {<<"6", "1", ".", "5", "m2">>, <<"x">>},
     chikunengetsu |-> {<<"2", "0", "0", "1", "nen">>, <<"2", "0", "2", "7", "nen">>, <<"x">>}]

\* the tables of up to MaxLabels labels
Tables ==
    UNION {{t \in [ls -> UNION {TableTexts[l] : l \in ls}] :
               \A l \in ls : t[l] \in TableTexts[l]} :
           ls \in {ls \in SUBSET DOMAIN TableTexts : Cardinality(ls) <= MaxLabels}}

InitOverride ==
    /\ SeqIdle
    /\ MergeIdle
    /\ ConcIdle
    /\ FallbackIdle
    /\ scr = [pc |-> "off", url |-> "none", page |-> "none", blocked |-> FALSE,
              challenge |-> "none", data |-> NoRecord]
    /\ \E site \in Sites, data \in GenericDatas, table \in Tables :
          calc = [fn |-> "override", done |-> FALSE,
                  text |-> [site |-> site, data |-> data, table |-> table]]

ApplyOverride ==
    /\ calc.fn = "override" /\ ~calc.done
    /\ calc' = [fn |-> calc.fn, text |-> calc.text, done |-> TRUE,
                result |-> siteOverride(calc.text.site, calc.text.data, calc.text.table)]
    /\ UNCHANGED <<seqVars, mergeVars, concVars, fallbackVars, scr>>

NextOverride == ApplyOverride

SpecOverride == InitOverride /\ [][NextOverride]_vars

----------------------------------------------------------------------------
(* The claims *)

\* key k is absent from both objects or has the same value in both
SameAt(a, b, k) == (Has(a, k) <=> Has(b, k)) /\ (Has(a, k) => a[k] = b[k])

\* the name under which the claims speak of a fee
FeeName ==
    [management |-> "fees.management", repair |-> "fees.repair",
     parking |-> "fees.parking"]

\* C1: a refresh keeps the stored value of every protectable field (the seven
\* top-level fields and the three fee keys) whose name is in the record's
\* manually-edited set, and gives every other protectable field that the
\* incoming data holds the incoming value.
C1_RefreshProtectsEdited ==
    mode = "refreshed" =>
        /\ \A f \in {"price", "area", "yearBuilt", "units", "station",
                    "stationMinute", "parkingStatus"} :
              IF f \in EditedFields(cur) THEN SameAt(out, cur, f)
              ELSE Has(inc, f) => Has(out, f) /\ out[f] = inc[f]
        /\ \A k \in {"management", "repair", "parking"} :
              IF FeeName[k] \in EditedFields(cur)
              THEN SameAt(FeesOf(out), FeesOf(cur), k)
              ELSE Has(FeesOf(inc), k) => Has(FeesOf(out), k) /\ out.fees[k] = inc.fees[k]

\* a refresh of a record whose parking status and management fee were edited
\* by hand, carrying other values for both and a new area
C1_Witness ==
    /\ mode = "refreshed"
    /\ {"parkingStatus", "fees.management"} \subseteq EditedFields(cur)
    /\ Has(inc, "parkingStatus") /\ inc.parkingStatus # cur.parkingStatus
    /\ Has(FeesOf(inc), "management") /\ Has(FeesOf(cur), "management")
    /\ inc.fees.management # cur.fees.management
    /\ Has(inc, "area") /\ Has(cur, "area") /\ inc.area # cur.area
    /\ out.parkingStatus = cur.parkingStatus
    /\ out.fees.management = cur.fees.management
    /\ out.area = inc.area

\* C2: in a refresh and in a manual update alike, every fee key that the
\* incoming fee bundle does not hold keeps its stored value.
C2_FeeBundlePartialMerge ==
    mode \in {"refreshed", "updated"} =>
        \A k \in {"management", "repair", "parking"} \ DOMAIN FeesOf(inc) : SameAt(FeesOf(out), FeesOf(cur), k)

\* a manual update of the management fee alone, of a record that has a repair
\* and a parking fee
C2_Witness ==
    /\ mode = "updated"
    /\ Has(inc, "fees") /\ DOMAIN inc.fees = {"management"}
    /\ {"management", "repair", "parking"} \subseteq DOMAIN FeesOf(cur)
    /\ out.fees.management = inc.fees.management
    /\ out.fees.management # cur.fees.management
    /\ out.fees.repair = cur.fees.repair
    /\ out.fees.parking = cur.fees.parking

\* the stored records, in store order
Stored == file.properties

\* a step keeps relation Keeps(before, after) between the two versions of
\* every record that is stored before and after it.  A record is followed by
\* its url, under which addProperty stores at most one record and which no
\* request of the model changes.
StepKeeps(Keeps(_, _)) ==
    \A i \in 1..Len(Stored), j \in 1..Len(Stored') :
        Stored[i].url = Stored'[j].url => Keeps(Stored[i], Stored'[j])

\* C3: the id and createdAt of a stored record never change: whatever the
\* request (a manual update whose body holds id or createdAt included), every
\* record that is still stored has the id and createdAt it had.
C3_IdAndCreatedAtNeverChange ==
    [][StepKeeps(LAMBDA before, after :
          after.id = before.id /\ after.createdAt = before.createdAt)]_vars

\* C4: a refresh and a manual update leave ratings and status as they were
\* (the ratings as the load of the same request migrated them), whatever the
\* incoming payload holds.
C4_MergesKeepRatingsAndStatus ==
    [][last'.op \in {"refresh", "update"} =>
          StepKeeps(LAMBDA before, after :
             /\ after.status = before.status
             /\ after.ratings = migrateRatings(before).ratings)]_vars

\* C5: the manually-edited set of a stored record only grows: after every
\* request it holds every name it held before.
C5_EditedSetOnlyGrows ==
    [][StepKeeps(LAMBDA before, after :
          EditedFields(before) \subseteq EditedFields(after))]_vars

\* a refresh has answered with a record whose price stays marked as edited
C5_Witness ==
    /\ last.op = "refresh" /\ last.http = 200 /\ ~last.isNull
    /\ "price" \in EditedFields(last.rec)
    /\ last.rec.price = "5000"

\* the url of an add request was stored when the request arrived
KnownUrl(url) == \E i \in 1..Len(Stored) : Stored[i].url = url

\* C6 as stated: an add of a stored url returns the stored record as it was,
\* leaves the number of records alone and writes nothing; any other add
\* stores one record more.
C6_DuplicateAddWritesNothing ==
    [][last'.op = "add" =>
          IF KnownUrl(last'.rec.url)
          THEN /\ \E i \in 1..Len(Stored) : Stored[i] = last'.rec
               /\ Len(Stored') = Len(Stored)
               /\ ~last'.saved /\ ~last'.migrated /\ ~last'.created
               /\ file' = file
          ELSE Len(Stored') = Len(Stored) + 1]_vars

\* C6 as amended: an add of a stored url returns the stored record, migrated
\* as every load migrates it, leaves the number of records alone and does not
\* save; the file changes only by the save of the load-time migration.  Any
\* other add stores the new record in front of the others.
C6_DuplicateAddSavesNothing ==
    [][last'.op = "add" =>
          IF KnownUrl(last'.rec.url)
          THEN /\ \E i \in 1..Len(Stored) :
                     /\ Stored[i].url = last'.rec.url
                     /\ last'.rec = migrateRatings(Stored[i])
                     /\ Stored'[i] = last'.rec
               /\ Len(Stored') = Len(Stored)
               /\ ~last'.saved
               /\ ~last'.migrated => file' = file
          ELSE /\ last'.saved
               /\ Len(Stored') = Len(Stored) + 1
               /\ Head(Stored') = last'.rec
               /\ last'.rec.status = "considering"]_vars

\* an add of a stored url during which the load-time migration saved
C6_Witness ==
    /\ last.op = "add" /\ ~last.saved /\ last.migrated
    /\ \E i \in 1..Len(Stored) : Stored[i] = last.rec

\* C7 as stated: an add of a stored url runs no extraction.
C7_DuplicateAddSkipsExtraction ==
    last.op = "add" /\ ~last.saved => ~last.scraped

\* C7 as amended: every add runs the extraction first; an add of a stored url
\* then answers with the stored record, and what was extracted is dropped.
C7_AddExtractsThenLooksUp ==
    last.op = "add" =>
        /\ last.scraped
        /\ ~last.saved => \E i \in 1..Len(Stored) : Stored[i] = last.rec

\* an add of a stored url, answered with the first record stored
C7_Witness ==
    /\ last.op = "add" /\ ~last.saved /\ last.scraped
    /\ last.rec.id = 101
    /\ clock > 2

\* C10: a rating, status, manual update, refresh or delete request that names
\* an identifier that is not stored is answered with a no-such-record outcome
\* (null from the store, or 404), and the collection stays as loaded.
C10_NotFoundIsSurfaced ==
    [][/\ last'.op \in {"rate", "status", "update", "refresh", "delete"}
       /\ last'.id \notin StoredIds(fileExists, file)
       => /\ last'.isNull \/ last'.http = 404
          /\ file' = getDb(fileExists, file).db]_vars

\* the calls between taking the gate and releasing it
Writers == {p \in DOMAIN procs : procs[p].pc \in {"writeTmp", "rename", "release"}}

\* the collections that the calls of ps leave when they run one after the
\* other, in any order, from collection start
RECURSIVE SerialOutcomes(_, _)
SerialOutcomes(ps, start) ==
    IF ps = {} THEN {start.db}
    ELSE UNION {SerialOutcomes(ps \ {p}, RunAlone(procs[p].call, start)) : p \in ps}

\* C8: when calls that ran at once have all returned, the persisted
\* collection is the one that some order of the calls, run one after the
\* other, leaves: no call's effect is lost.
C8_MutationsAreSerialized ==
    (procs # <<>> /\ \A p \in DOMAIN procs : procs[p].pc = "done")
        => file \in SerialOutcomes(DOMAIN procs, initFile)

\* C9: at most one saveDb call is between setting isWriting and resetting it.
C9_AtMostOneWriter == Cardinality(Writers) <= 1

\* one call is renaming the temporary file while another waits at the gate
C9_Witness ==
    \E p, q \in DOMAIN procs :
        /\ procs[p].pc = "rename"
        /\ procs[q].pc = "gate"
        /\ isWriting

\* C11: a refresh whose extracted fields are the record's own current values
\* stores a record equal to the one it found, and the same refresh applied a
\* second time stores what the first one stored.
C11_RefreshIdempotent ==
    [][/\ mode' = "refreshed" /\ inc = ExtractedOf(cur) => out' = cur
       /\ mode' = "refreshedTwice" => out' = out]_vars

\* the ratings of a property are a list
HasRatingList(prop) == Has(prop, "ratings") /\ IsArray(prop.ratings)

\* the collection is in the current shape: a non-empty user list and a loan,
\* every property with a list of ratings, and no legacy id anywhere
CurrentShape(db) ==
    /\ Has(db, "settings")
    /\ Has(db.settings, "users") /\ Len(db.settings.users) > 0
    /\ Has(db.settings, "loan")
    /\ \A i \in 1..Len(db.settings.users) :
          db.settings.users[i].id \notin {"user-a", "user-b"}
    /\ \A i \in 1..Len(db.properties) :
          /\ HasRatingList(db.properties[i])
          /\ \A j \in 1..Len(db.properties[i].ratings) :
                db.properties[i].ratings[j].userId \notin {"user-a", "user-b"}

\* C12: a load that only lists the collection writes the migrated collection
\* exactly when the migration changed something; it leaves a collection of
\* the current shape; it writes nothing when the collection already had the
\* current shape; and a second load right after it changes and writes nothing.
C12_MigrationIdempotent ==
    [][last'.op = "list" =>
          /\ last'.migrated <=> file' # file
          /\ CurrentShape(file')
          /\ CurrentShape(file) => ~last'.migrated
          /\ last.op = "list" => ~last'.migrated /\ file' = file]_vars

\* a second load in a row, of a collection whose user list came out of the
\* migration of the two-partner settings
C12_Witness ==
    /\ last.op = "list" /\ ~last.migrated /\ clock = 3
    /\ Len(file.settings.users) = 2
    /\ file.settings.users[2] = [id |-> "u2", name |-> "User2", icon |-> "person"]
    /\ Len(file.properties) = 2

\* a partner's rating in the two-partner object has a score or a comment
RatedBy(oldRatings, partner) ==
    /\ Has(oldRatings, partner)
    /\ \/ Has(oldRatings[partner], "score") /\ oldRatings[partner].score \notin {"null", ""}
       \/ Has(oldRatings[partner], "comment") /\ oldRatings[partner].comment # ""

\* list is what C13 makes of the two-partner object of property prop
MigratedFrom(prop, list) ==
    LET oldRatings == prop.ratings[1].bundle
        entries(userId) == {j \in 1..Len(list) : list[j].userId = userId}
        carried(partner, userId) ==
            IF RatedBy(oldRatings, partner)
            THEN /\ Cardinality(entries(userId)) = 1
                 /\ \A j \in entries(userId) :
                       /\ SameAt(list[j], oldRatings[partner], "score")
                       /\ SameAt(list[j], oldRatings[partner], "comment")
                       /\ list[j].updatedAt = prop.createdAt
            ELSE entries(userId) = {}
    IN /\ carried("partnerA", "u1")
       /\ carried("partnerB", "u2")
       /\ \A j \in 1..Len(list) : list[j].userId \in {"u1", "u2"}

\* C13: a load turns the two-partner ratings object of a property into a
\* list with one entry for each partner that has a score or a comment, under
\* u1 for partnerA and u2 for partnerB, with that partner's score and comment
\* and the property's createdAt as updatedAt, and with no other entry.
C13_LegacyRatingsBecomeList ==
    [][last'.op = "list" =>
          \A i \in 1..Len(file.properties) :
              Has(file.properties[i], "ratings") /\ ~IsArray(file.properties[i].ratings)
                  => MigratedFrom(file.properties[i], file'.properties[i].ratings)]_vars

\* the first load has made { partnerA: { score: good, comment: c } } a list of
\* the one entry u1/good/c, and the object holding a comment alone and a
\* score-less partnerB a list of two
C13_Witness ==
    /\ last.op = "list" /\ last.migrated /\ clock = 2
    /\ Len(file.properties) > 0
    /\ \/ file.properties[1].ratings =
             <<[userId |-> "u1", score |-> "good", comment |-> "c", updatedAt |-> 0]>>
       \/ /\ Len(file.properties[1].ratings) = 2
          /\ file.properties[1].ratings[1] =
                [userId |-> "u1", comment |-> "words only", updatedAt |-> 0]

\* C14: no ratings list of a stored property holds two entries of one user.
C14_OneRatingPerUser ==
    \A i \in 1..Len(file.properties) :
        HasRatingList(file.properties[i]) =>
            \A j, k \in 1..Len(file.properties[i].ratings) :
                file.properties[i].ratings[j].userId = file.properties[i].ratings[k].userId
                    => j = k

\* C15: the status of every stored property is one of the eight workflow
\* states, whatever the requests carried.
C15_StatusInClosedSet ==
    \A i \in 1..Len(file.properties) :
        file.properties[i].status \in
            {"considering", "exterior_viewed", "viewing_scheduled", "viewed",
             "applying", "contracted", "excluded", "sold_out"}

\* C16: a request that finds a db.json that does not parse works on a fresh
\* default collection: no properties, the one user u1 and the default loan.
C16_FallbackIsFreshDefault ==
    loaded.fallback =>
        /\ Len(loaded.db.properties) = 0
        /\ loaded.db.settings =
              [users |-> <<[id |-> "u1", name |-> "User1", icon |-> "person"]>>,
               loan |-> [interestRate |-> 5, termYears |-> 35, downPayment |-> 0]]

\* the field that a name of the manually-edited set stands for has in out the
\* value it has in cur
KeptAsStored(name) ==
    IF name \in {"fees.management", "fees.repair", "fees.parking"}
    THEN \A k \in {"management", "repair", "parking"} :
            FeeName[k] = name => SameAt(FeesOf(out), FeesOf(cur), k)
    ELSE SameAt(out, cur, name)

C18_ExtractionNeverRaises ==
    /\ scr.pc # "raised"
    /\ scr.pc = "returned" =>
          /\ {"title", "price", "url", "images"} \subseteq DOMAIN scr.data
          /\ scr.data.url = scr.url

\* t is a numeral: digits and nothing else
IsNumeral(t) ==
    /\ t # <<>>
    /\ \A i \in 1..Len(t) :
          t[i] \in {"0", "1", "2", "3", "4", "5", "6", "7", "8", "9"}

\* t without the yen sign it may end with
WithoutYen(t) ==
    IF t # <<>> /\ t[Len(t)] = "yen" THEN SubSeq(t, 1, Len(t) - 1) ELSE t

\* the whole number n
Whole(n) == [nan |-> FALSE, whole |-> n, frac |-> 0]

\* C19: parseJapaneseNumber answers a number that is not NaN and not
\* negative for every text: first * 10000 + second for <numeral> man
\* <numeral>, first * 10000 for <numeral> man, the value of the numeral for a
\* bare numeral (commas stripped, a yen sign after it or not), and 0 for the
\* empty text and for a text with no digit in it.
C19_NormalizerIsTotal ==
    calc.fn = "parseJapaneseNumber" /\ calc.done =>
        LET t == WithoutYen(StripCommas(calc.text))
            r == calc.result
        IN /\ ~r.nan /\ r.whole >= 0 /\ r.frac >= 0
           /\ IsNumeral(t) => r = Whole(DigitsValue(t))
           /\ \A i \in 1..Len(t) :
                 t[i] = "man" /\ IsNumeral(SubSeq(t, 1, i - 1)) =>
                    /\ i = Len(t) => r = Whole(DigitsValue(SubSeq(t, 1, i - 1)) * 10000)
                    /\ IsNumeral(SubSeq(t, i + 1, Len(t))) =>
                          r = Whole(DigitsValue(SubSeq(t, 1, i - 1)) * 10000
                                      + DigitsValue(SubSeq(t, i + 1, Len(t))))
           /\ (\A i \in 1..Len(t) : ~IsDigit(t[i])) => r = Whole(0)

\* the years that follow a construction label of text s on its line: four
\* digits after the label, with no line break in between
LabelledYears(s) ==
    {DigitsValue(SubSeq(s, j, j + 3)) :
        j \in {j \in 1..Len(s) :
                 /\ FourDigitsAt(s, j)
                 /\ \E i \in 1..j :
                       /\ LabelEnd(s, i) > 0 /\ LabelEnd(s, i) <= j
                       /\ \A k \in LabelEnd(s, i)..(j - 1) : s[k] # "nl"}}

\* the years that four digits before a year sign write in text s, when they
\* lie after 1900 and not after the current year
AbsoluteYears(s) ==
    {y \in {DigitsValue(SubSeq(s, j, j + 3)) :
               j \in {j \in 1..(Len(s) - 4) : FourDigitsAt(s, j) /\ s[j + 4] = "nen"}} :
        y > 1900 /\ y <= 2026}

\* the years that an age of text s (chiku, digits, year sign) leads back to
RelativeYears(s) ==
    {2026 - DigitsValue(SubSeq(s, ij[1] + 1, ij[2] - 1)) :
        ij \in {ij \in (1..Len(s)) \X (1..Len(s)) :
                  /\ s[ij[1]] = "chiku" /\ s[ij[2]] = "nen"
                  /\ ij[2] > ij[1] + 1
                  /\ \A k \in (ij[1] + 1)..(ij[2] - 1) : IsDigit(s[k])}}

\* C20: the construction year of the generic extractor is a year that follows
\* a construction label, if there is one; else the least of the years in
\* (1900, current year] written as four digits and the year sign, if there
\* is one; else the current year less the age of a relative expression, if
\* there is one; else it is left unset.
C20_YearHeuristicOrder ==
    calc.fn = "yearBuilt" /\ calc.done =>
        LET s == calc.text
            r == calc.result
        IN IF LabelledYears(s) # {} THEN r.set /\ r.year \in LabelledYears(s)
           ELSE IF AbsoluteYears(s) # {}
           THEN /\ r.set /\ r.year \in AbsoluteYears(s)
                /\ \A y \in AbsoluteYears(s) : r.year <= y
           ELSE IF RelativeYears(s) # {} THEN r.set /\ r.year \in RelativeYears(s)
           ELSE ~r.set

\* the body with the years 2015 and 2003 and no label has given 2003
C20_Witness ==
    /\ calc.fn = "yearBuilt" /\ calc.done
    /\ calc.text = <<"2", "0", "1", "5", "nen", "2", "0", "0", "3", "nen">>
    /\ calc.result = [set |-> TRUE, year |-> 2003]

\* C21: the image list of every extraction result has at most 12 entries,
\* holds no URL twice, and holds absolute (http/https) URLs only.
C21_ImagesCappedUniqueAbsolute ==
    calc.fn = "images" /\ calc.done =>
        LET images == calc.result
        IN /\ Len(images) <= 12
           /\ \A i, j \in 1..Len(images) : images[i] = images[j] => i = j
           /\ \A i \in 1..Len(images) : images[i].scheme \in {"http", "https"}

\* the names C22 expects a manual update to record: every key of the
\* payload but fees and the three administrative names, and the compound
\* name of every fee key the payload's fee bundle holds
PayloadNames(updates) ==
    ((DOMAIN updates) \ {"fees", "manuallyEditedFields", "ratings", "status"})
      \cup {FeeName[k] : k \in {"management", "repair", "parking"} \cap DOMAIN FeesOf(updates)}

\* C22: after a manual update of a stored record its manually-edited set is
\* the old set united with the names of the fields of the payload, a fee
\* sub-field under its compound name, the parent name fees never, and
\* manuallyEditedFields, ratings and status never.
C22_TrackerExtendsEditedSet ==
    mode = "updated" => EditedFields(out) = EditedFields(cur) \cup PayloadNames(inc)

\* the label next to which a page gives a field, and a fee
FieldLabel ==
    [price |-> "kakaku", area |-> "senyu", yearBuilt |-> "chikunengetsu",
     units |-> "sokosu", parkingStatus |-> "chushajo", station |-> "kotsu",
     stationMinute |-> "kotsu"]

FeeLabel == [management |-> "kanrihi", repair |-> "shuzen", parking |-> "chushajo"]

\* the fields an override reads from its table, and whether it reads the fees
SiteFields(site) ==
    CASE site = "suumo.jp" -> {"station", "stationMinute", "price", "units", "parkingStatus"}
      [] site = "mansion-note.com" -> {"parkingStatus", "units", "area", "yearBuilt"}
      [] site = "homes.co.jp" -> {"station", "stationMinute", "price", "area", "yearBuilt"}
      [] site = "cowcamo.jp" ->
           {"parkingStatus", "units", "yearBuilt", "area", "station", "stationMinute"}

SiteReadsFees(site) == site # "homes.co.jp"

HasDigit(text) == \E i \in 1..Len(text) : IsDigit(text[i])

\* where a text says 'on foot' right before a number of minutes (0: nowhere)
OnFoot(text) ==
    FirstIndex({i \in 1..Len(text) :
                  /\ text[i] = "to" /\ i + 1 <= Len(text) /\ text[i + 1] = "ho"
                  /\ DigitRunEnd(text, i + 2) > i + 2
                  /\ DigitRunEnd(text, i + 2) <= Len(text)
                  /\ text[DigitRunEnd(text, i + 2)] = "fun"})

\* the text of the field's label in the table (empty: no such label)
LabelText(table, f) == IF Has(table, FieldLabel[f]) THEN table[FieldLabel[f]] ELSE <<>>

\* the table has a value for the field: its label is there and the text holds
\* something to read (a price, a year, a number, a walk of so many minutes)
TableHolds(table, f) ==
    LET text == LabelText(table, f)
    IN CASE f = "price" -> priceOfTable(text) # <<>>
         [] f = "yearBuilt" -> yearDigits(text) # <<>>
         [] f \in {"area", "units"} -> HasDigit(text)
         [] f = "parkingStatus" -> text # <<>>
         [] f \in {"station", "stationMinute"} -> OnFoot(text) > 0

\* the value the table gives for a field other than the station name
TableValue(table, f) ==
    LET text == LabelText(table, f)
    IN CASE f = "price" -> priceOfTable(text)
         [] f = "yearBuilt" -> parseInt(yearDigits(text))
         [] f = "area" -> parseFloat(areaRun(text, FALSE, FALSE))
         [] f = "units" -> parseInt(firstDigits(text))
         [] f = "parkingStatus" -> Trim(text)
         [] f = "stationMinute" ->
              Num(DigitsValue(SubSeq(text, OnFoot(text) + 2,
                                     DigitRunEnd(text, OnFoot(text) + 2) - 1)))

\* a is a piece of text b
PieceOf(a, b) == \E i, j \in 1..Len(b) : a = SubSeq(b, i, j)

\* the value of the override wins: the result holds what the table gives
OverrideWins(site, generic, table, result) ==
    /\ \A f \in SiteFields(site) :
          TableHolds(table, f) =>
             /\ Has(result, f)
             /\ IF f = "station" THEN PieceOf(result[f], LabelText(table, f))
                ELSE result[f] = TableValue(table, f)
    /\ SiteReadsFees(site) =>
          \A k \in DOMAIN FeeLabel :
             Has(table, FeeLabel[k]) /\ HasDigit(table[FeeLabel[k]]) =>
                /\ Has(result.fees, k)
                /\ result.fees[k] = parseJapaneseNumber(table[FeeLabel[k]])

\* no value of the override, no change: a field whose label is missing
\* (for the station and the minutes: no access row at all) or whose text
\* holds nothing to read is as the generic extractors left it
GenericKept(site, generic, table, result) ==
    /\ \A f \in DOMAIN FieldLabel :
          (IF f \in {"station", "stationMinute"} THEN ~Has(table, "kotsu")
           ELSE ~TableHolds(table, f)) =>
             SameAt(result, generic, f)
    /\ \A k \in DOMAIN FeeLabel :
          ~(Has(table, FeeLabel[k]) /\ HasDigit(table[FeeLabel[k]])) =>
             SameAt(result.fees, generic.fees, k)

\* C23: for a known site every field that the override determines from its
\* table replaces the value of the generic extractors, and a field for which
\* it finds no value keeps the generic value: it is neither erased nor set
\* to 0.
C23_OverrideLayering ==
    calc.fn = "override" /\ calc.done =>
        /\ OverrideWins(calc.text.site, calc.text.data, calc.text.table, calc.result)
        /\ GenericKept(calc.text.site, calc.text.data, calc.text.table, calc.result)

\* the ratings before and after a rating request: one entry replaced by an
\* entry of the same user, or an entry of a user who had none added at the
\* end; every other entry as it was and where it was
OneEntryChanged(before, after) ==
    \/ /\ Len(after) = Len(before)
       /\ \E i \in 1..Len(before) :
             /\ after[i].userId = before[i].userId
             /\ \A j \in (1..Len(before)) \ {i} : after[j] = before[j]
    \/ /\ Len(after) = Len(before) + 1
       /\ SubSeq(after, 1, Len(before)) = before
       /\ \A j \in 1..Len(before) : before[j].userId # after[Len(after)].userId

C25_YearWithinRange ==
    calc.fn = "yearBuilt" /\ calc.done /\ calc.result.set =>
        calc.result.year >= 1900 /\ calc.result.year <= CurrentYear

\* C26: a call that finds a verification challenge waits no longer than the
\* timeout: the wait ends, cleared or timed out, by going on to read the
\* page; the call then comes to its end, and after a wait that timed out it
\* ends by returning its result unless closing the browser fails.
C26_BoundedChallengeWait ==
    /\ (scr.pc = "waitCleared") ~> (scr.pc \in {"returned", "raised"})
    /\ [][scr.pc = "waitCleared" => scr'.pc = "readTitle"]_vars
    /\ [][scr.challenge = "timed out" /\ scr'.pc = "raised" => scr.pc = "close"]_vars

\* a call whose wait timed out has returned what it then read from the page
C26_Witness ==
    /\ scr.challenge = "timed out"
    /\ scr.pc = "returned"
    /\ scr.data.title # ""
    /\ Has(scr.data, "fees")

\* C27: saveDb resets the gate on every way out, a failed write or rename
\* included: the gate is set only while some call is between taking and
\* releasing it; and under fair scheduling every call that waits for the
\* gate gets it and comes to its end, also after another call's write failed.
C27_GateReleasedAndProgress ==
    /\ [](isWriting => Writers # {})
    /\ \A p \in 1..NProcs : (procs[p].pc = "gate") ~> (procs[p].pc \in {"done", "failed"})

\* one call's write has failed, and another call has taken the gate since
C27_Witness ==
    \E p, q \in DOMAIN procs :
        /\ procs[p].pc = "failed"
        /\ procs[q].pc = "writeTmp"
        /\ isWriting


\* the loan bundle of a stored collection, when its settings hold one
HasLoan(f) == Has(f, "settings") /\ Has(f.settings, "loan")

\* C28: a load (with its migration) or a rating leaves a loan bundle that is
\* already stored as it was, also in the run that synthesizes the user list.
C28_MigrationKeepsLoan ==
    [][HasLoan(file) => HasLoan(file') /\ file'.settings.loan = file.settings.loan]_vars


\* a deleteProperty(101) whose saveDb has renamed the file (storage.ts:285, 76)
DeleteCompleted ==
    \E p \in DOMAIN procs :
        /\ procs[p].call = "delete"
        /\ \/ procs[p].pc = "done"
           \/ procs[p].pc = "release" /\ procs[p].cont = "done" /\ ~procs[p].error

\* C29: once a delete of record 101 has completed its write, db.json holds
\* no record 101, whatever the other calls in flight write afterwards.
C29_DeletedStaysDeleted ==
    DeleteCompleted => 101 \notin StoredIds(fileExists, file)


\* C30: a refresh whose retrieval failed (the extraction is the default
\* data) leaves the stored title, price and images, where not marked as
\* edited by hand, as they were.
C30_FailedRefreshKeepsStored ==
    (mode = "refreshed" /\ inc = scrapeProperty(cur.url, "failed")) =>
        \A f \in {"title", "price", "images"} \ EditedFields(cur) : out[f] = cur[f]

====
